---- MODULE Spec2Model ----
(***************************************************************************)
(* Growth parameters calculator: the /calculate request handler (app.py),  *)
(* the age and gestation engine (calculations.py) and the validators       *)
(* (validation.py), as a state machine.                                    *)
(*                                                                         *)
(* Units.  SDS and centile values are integers in thousandths; a value     *)
(* rounded to 2 decimals is an integer in hundredths.  Weights, heights    *)
(* and head circumferences are integers in hundredths of kg / cm.  A       *)
(* decimal age is the exact integer numerator over AgeDen.                 *)
(*                                                                         *)
(* Optional values.  Python's None is the empty set, a present value x is  *)
(* the singleton {x}.                                                      *)
(***************************************************************************)
EXTENDS Integers, Sequences, FiniteSets, TLC

VARIABLES req, pc, inp, age, meas, calls, resp, fn,
          prevs, bones, mph, pmb, limiter

\* what calculate() computes after the Measurement objects of the current
\* measurements, and the rate limiter of the application
later == <<prevs, bones, mph, pmb, limiter>>

vars == <<req, pc, inp, age, meas, calls, resp, fn, later>>

----------------------------------------------------------------------------
(* Optional values and Python truthiness                                   *)

None == {}

Some(x) == {x}

The(s) == CHOOSE x \in s : TRUE

\* bool(x) of an optional number: None and 0 are falsy
Truthy(s) == s # None /\ The(s) # 0

Abs(x) == IF x < 0 THEN -x ELSE x

Min(a, b) == IF a < b THEN a ELSE b

\* n / d rounded to the nearest integer, ties to even (d > 0)
RoundDiv(n, d) ==
    LET a == Abs(n)
        q == a \div d
        r == a % d
        up == IF 2 * r > d THEN q + 1
              ELSE IF 2 * r < d THEN q
              ELSE IF q % 2 = 0 THEN q ELSE q + 1
    IN IF n < 0 THEN -up ELSE up

\* round(x, 2) of a value in thousandths: the result is in hundredths
Round2(x) == RoundDiv(x, 10)

----------------------------------------------------------------------------
(* Calendar: datetime.date and dateutil.relativedelta                      *)

MONTHS_PER_YEAR == 12

\* DAYS_PER_YEAR = 365.25, times 4
DAYS_PER_YEAR_X4 == 1461

\* common denominator of years + months / 12 + days / 365.25
AgeDen == MONTHS_PER_YEAR * DAYS_PER_YEAR_X4

\* the years the modelled requests fall in
Years == 2020..2027

IsLeap(y) == (y % 4 = 0 /\ y % 100 # 0) \/ y % 400 = 0

DaysInMonth(y, m) ==
    IF m = 2 THEN (IF IsLeap(y) THEN 29 ELSE 28)
    ELSE IF m \in {4, 6, 9, 11} THEN 30 ELSE 31

DaysBeforeYear(y) ==
    LET p == y - 1 IN p * 365 + p \div 4 - p \div 100 + p \div 400

DaysBeforeMonth(y, m) ==
    <<0, 31, 59, 90, 120, 151, 181, 212, 243, 273, 304, 334>>[m]
        + (IF m > 2 /\ IsLeap(y) THEN 1 ELSE 0)

Date(y, m, d) == [y |-> y, m |-> m, d |-> d]

\* date.toordinal()
toordinal(dt) == DaysBeforeYear(dt.y) + DaysBeforeMonth(dt.y, dt.m) + dt.d

\* date.fromordinal(n)
fromordinal(n) ==
    LET y == CHOOSE yy \in Years :
                 DaysBeforeYear(yy) < n /\ n <= DaysBeforeYear(yy + 1)
        m == CHOOSE mm \in 1..12 :
                 /\ DaysBeforeYear(y) + DaysBeforeMonth(y, mm) < n
                 /\ n <= DaysBeforeYear(y) + DaysBeforeMonth(y, mm) + DaysInMonth(y, mm)
    IN Date(y, m, n - DaysBeforeYear(y) - DaysBeforeMonth(y, m))

\* date + relativedelta(days=n); the ordinal is bound to its value once
AddDays(dt, n) == The({fromordinal(o) : o \in {toordinal(dt) + n}})

\* (a - b).days
DaysBetween(a, b) == toordinal(a) - toordinal(b)

\* date + relativedelta(months=n): the day is clipped to the month's length
AddMonths(dt, n) ==
    LET t == dt.y * 12 + (dt.m - 1) + n
        y == t \div 12
        m == (t % 12) + 1
    IN Date(y, m, Min(dt.d, DaysInMonth(y, m)))

\* integer division truncating toward zero, as int(x / 12) in relativedelta
TruncDiv(n, d) == IF n < 0 THEN -((-n) \div d) ELSE n \div d

\* relativedelta(dt1, dt2): whole months between the dates, then the
\* remaining days; years and months carry the sign of the difference
relativedelta(dt1, dt2) ==
    LET m0 == (dt1.y - dt2.y) * 12 + (dt1.m - dt2.m)
        whole ==
            IF toordinal(dt1) >= toordinal(dt2)
            THEN (IF toordinal(dt1) < toordinal(AddMonths(dt2, m0))
                  THEN m0 - 1 ELSE m0)
            ELSE (IF toordinal(dt1) > toordinal(AddMonths(dt2, m0))
                  THEN m0 + 1 ELSE m0)
    IN The({ [years  |-> TruncDiv(months, 12),
              months |-> months - TruncDiv(months, 12) * 12,
              days   |-> DaysBetween(dt1, AddMonths(dt2, months))] :
               months \in {whole} })

\* datetime.strptime(text, '%Y-%m-%d').date(): a date exactly when the
\* text has the three fields and they name a day of the calendar
ValidYmd(raw) ==
    /\ raw.k = "ymd"
    /\ raw.m \in 1..12
    /\ raw.d \in 1..DaysInMonth(raw.y, raw.m)

strptime(raw) == Date(raw.y, raw.m, raw.d)

----------------------------------------------------------------------------
(* calculations.py: age and gestation engine                               *)

\* decimal_years as the numerator over AgeDen, and the calendar age
calculate_age_in_years(birth_date, measurement_date) ==
    The({ [decimal  |-> delta.years * AgeDen
                          + delta.months * DAYS_PER_YEAR_X4
                          + delta.days * 4 * MONTHS_PER_YEAR,
           calendar |-> delta] :
            delta \in {relativedelta(measurement_date, birth_date)} })

DAYS_PER_WEEK == 7

FULL_TERM_DAYS == 280

PRETERM_THRESHOLD_WEEKS == 37

MODERATE_PRETERM_THRESHOLD_WEEKS == 32

CORRECTION_AGE_THRESHOLD_MODERATE == 1

CORRECTION_AGE_THRESHOLD_EXTREME == 2

\* gestation_days or 0
OrZero(s) == IF Truthy(s) THEN The(s) ELSE 0

\* should_apply_gestation_correction with `<` for `<=` on the age limits
should_apply_strict(gestation_weeks, gestation_days, ageNum) ==
    IF ~Truthy(gestation_weeks) THEN FALSE
    ELSE LET total7 == The(gestation_weeks) * DAYS_PER_WEEK + OrZero(gestation_days)
         IN IF total7 >= PRETERM_THRESHOLD_WEEKS * DAYS_PER_WEEK THEN FALSE
            ELSE IF total7 >= MODERATE_PRETERM_THRESHOLD_WEEKS * DAYS_PER_WEEK
            THEN ageNum < CORRECTION_AGE_THRESHOLD_MODERATE * AgeDen
            ELSE ageNum < CORRECTION_AGE_THRESHOLD_EXTREME * AgeDen

\* total_gestation_weeks = weeks + days / 7 is compared as 7 * weeks + days
should_apply_gestation_correction(gestation_weeks, gestation_days, ageNum) ==
    IF ~Truthy(gestation_weeks) THEN FALSE
    ELSE LET total7 == The(gestation_weeks) * DAYS_PER_WEEK + OrZero(gestation_days)
         IN IF total7 >= PRETERM_THRESHOLD_WEEKS * DAYS_PER_WEEK THEN FALSE
            ELSE IF /\ MODERATE_PRETERM_THRESHOLD_WEEKS * DAYS_PER_WEEK <= total7
                    /\ total7 < PRETERM_THRESHOLD_WEEKS * DAYS_PER_WEEK
            THEN ageNum <= CORRECTION_AGE_THRESHOLD_MODERATE * AgeDen
            ELSE IF total7 < MODERATE_PRETERM_THRESHOLD_WEEKS * DAYS_PER_WEEK
            THEN ageNum <= CORRECTION_AGE_THRESHOLD_EXTREME * AgeDen
            ELSE FALSE

calculate_corrected_age(birth_date, measurement_date, gestation_weeks, gestation_days) ==
    LET total_gestation_days == The(gestation_weeks) * DAYS_PER_WEEK + OrZero(gestation_days)
        days_adjustment == FULL_TERM_DAYS - total_gestation_days
    IN The({calculate_age_in_years(corrected_birth_date, measurement_date) :
               corrected_birth_date \in {AddDays(birth_date, days_adjustment)}})

----------------------------------------------------------------------------
(* The request: the JSON fields read by calculate()                        *)

\* a raw JSON measurement: absent (missing, null or ""), a JSON number, a
\* numeric string, or a string that is no number; v is in hundredths
Absent == [k |-> "absent", v |-> 0]

Num(v) == [k |-> "num", v |-> v]

Str(v) == [k |-> "str", v |-> v]

Text == [k |-> "text", v |-> 0]

\* a JSON true or false (float(True) is 1.0), an array and an object with
\* v members
Bool(b) == [k |-> "bool", v |-> IF b THEN 100 ELSE 0]

Array(n) == [k |-> "array", v |-> n]

Object(n) == [k |-> "object", v |-> n]

\* a raw date field: the key is missing, or it holds a text
MissingDate == [k |-> "missing", y |-> 0, m |-> 0, d |-> 0]

Ymd(y, m, d) == [k |-> "ymd", y |-> y, m |-> m, d |-> d]

NominalBirth == Ymd(2023, 1, 15)

\* six months after NominalBirth
NominalMeasurement == Ymd(2023, 7, 15)

NominalWeight == Str(750)

NominalHeight == Str(6700)

NominalOfc == Str(4300)

NoGestation == [weeks |-> None, days |-> None]

Gest(w, d) == [weeks |-> Some(w), days |-> d]

Request(b, md, sx, w, h, o, g) ==
    [birth_date |-> b, measurement_date |-> md, sex |-> sx,
     weight |-> w, height |-> h, ofc |-> o,
     gestation_weeks |-> g.weeks, gestation_days |-> g.days,
     previous_measurements |-> <<>>, bone_age_assessments |-> <<>>,
     maternal_height |-> Absent, paternal_height |-> Absent]

\* measurement dates around the birth date, the estimated due date of a
\* 30-week gestation (birth + 70 days) and the 1- and 2-year age limits
MeasurementDates ==
    {Ymd(2023, 2, 30), MissingDate,
     Ymd(2023, 1, 14), Ymd(2023, 1, 15), Ymd(2023, 2, 15), Ymd(2023, 3, 26),
     NominalMeasurement,
     Ymd(2024, 1, 15), Ymd(2024, 1, 16), Ymd(2025, 1, 15), Ymd(2025, 1, 16)}

Gestations ==
    {NoGestation, Gest(30, None), Gest(31, Some(6)), Gest(32, Some(0)),
     Gest(36, Some(6)), Gest(37, Some(0))}

\* weights around the validator's limits 0.1 kg and 300 kg
Weights ==
    {Absent, Num(0), Str(0), Text, Str(9), Str(10), NominalWeight,
     Str(30000), Str(30010), Num(-500)}

\* one weight on varying dates and gestations
DateGestationRequests ==
    { Request(NominalBirth, md, "male", NominalWeight, Absent, Absent, g) :
        md \in MeasurementDates, g \in Gestations }

\* every combination of present and absent measurements, term and preterm
PresenceRequests ==
    { Request(NominalBirth, NominalMeasurement, "male", w, h, o, g) :
        w \in {Absent, NominalWeight}, h \in {Absent, NominalHeight},
        o \in {Absent, NominalOfc}, g \in {NoGestation, Gest(30, Some(0))} }

WeightRequests ==
    { Request(NominalBirth, NominalMeasurement, "male", w, h, Absent, NoGestation) :
        w \in Weights, h \in {Absent, NominalHeight, Num(0), Text} }

RequiredFieldRequests ==
    { Request(b, NominalMeasurement, sx, NominalWeight, Absent, Absent, NoGestation) :
        b \in {NominalBirth, MissingDate, Ymd(2023, 13, 1)}, sx \in {"male", "female", "missing"} }

\* an entry of previous_measurements: {date, height?, weight?, ofc?}
PrevEntry(date, h, w, o) == [date |-> date, height |-> h, weight |-> w, ofc |-> o]

\* two years after NominalBirth
LaterMeasurement == Ymd(2025, 1, 15)

LaterHeight == Str(10500)

\* previous entries 366, 123, 122 and 61 days before LaterMeasurement, on
\* it and a month after it; with a height, without one; a date that is no
\* date, and a height that is no number
PrevEntries ==
    {PrevEntry(Ymd(2024, 1, 15), Str(10000), Absent, Absent),
     PrevEntry(Ymd(2024, 1, 15), Str(9900), Str(1200), Absent),
     PrevEntry(Ymd(2024, 9, 14), Str(10200), Absent, Absent),
     PrevEntry(Ymd(2024, 9, 15), Str(10250), Absent, Absent),
     PrevEntry(Ymd(2024, 11, 15), Str(10400), Absent, Absent),
     PrevEntry(Ymd(2025, 1, 15), Str(10500), Absent, Absent),
     PrevEntry(Ymd(2025, 2, 15), Num(0), Str(1300), Str(4800)),
     PrevEntry(Ymd(2024, 2, 30), Str(10000), Absent, Absent),
     PrevEntry(MissingDate, Str(10000), Absent, Absent),
     PrevEntry(Ymd(2024, 1, 15), Text, Absent, Absent)}

\* the longest list of previous measurements of a request
MaxPrev == 2

PrevLists == UNION {[1..n -> PrevEntries] : n \in 0..MaxPrev}

\* a height, or a weight alone, two years after birth with previous
\* measurements
PreviousRequests ==
    { [Request(NominalBirth, LaterMeasurement, "male", Absent, LaterHeight,
               Absent, NoGestation)
          EXCEPT !.previous_measurements = ps] :
        ps \in PrevLists }
    \cup
    { [Request(NominalBirth, LaterMeasurement, "male", NominalWeight, Absent,
               Absent, NoGestation)
          EXCEPT !.previous_measurements = ps] :
        ps \in {<<e>> : e \in PrevEntries} }

\* a JSON null where a number is expected
Null == [k |-> "null", v |-> 0]

\* an entry of bone_age_assessments: {date, bone_age, standard}; bone_age
\* in hundredths of a year, standard "" when the key is missing
Assessment(date, bone_age, standard) ==
    [date |-> date, bone_age |-> bone_age, standard |-> standard]

\* assessments on LaterMeasurement, 5 days before it, 30 and 31 days before
\* and after it; a bone age that is no number, is null, is missing; no date
Assessments ==
    {Assessment(Ymd(2025, 1, 15), Str(150), "gp"),
     Assessment(Ymd(2024, 12, 16), Str(200), "tw3"),
     Assessment(Ymd(2025, 2, 14), Num(225), "tw3"),
     Assessment(Ymd(2024, 12, 15), Str(200), "tw3"),
     Assessment(Ymd(2025, 2, 15), Str(200), "gp"),
     Assessment(Ymd(2025, 1, 10), Str(175), ""),
     Assessment(Ymd(2025, 1, 10), Text, "gp"),
     Assessment(Ymd(2025, 1, 10), Null, "tw3"),
     Assessment(Ymd(2025, 1, 10), Absent, "gp"),
     Assessment(MissingDate, Str(200), "gp")}

\* the longest list of bone age assessments of a request
MaxBones == 2

AssessmentLists == UNION {[1..n -> Assessments] : n \in 0..MaxBones}

\* a height, or a weight alone, two years after birth with bone age
\* assessments
BoneAgeRequests ==
    { [Request(NominalBirth, LaterMeasurement, "male", Absent, LaterHeight,
               Absent, NoGestation)
          EXCEPT !.bone_age_assessments = bs] :
        bs \in AssessmentLists }
    \cup
    { [Request(NominalBirth, LaterMeasurement, "male", NominalWeight, Absent,
               Absent, NoGestation)
          EXCEPT !.bone_age_assessments = bs] :
        bs \in {<<b>> : b \in Assessments} }

\* a height two years after birth with parental heights: 165 and 180 cm,
\* absent, zero, or no number; either sex
ParentRequests ==
    { [Request(NominalBirth, LaterMeasurement, sx, Absent, LaterHeight,
               Absent, NoGestation)
          EXCEPT !.maternal_height = mh, !.paternal_height = ph] :
        sx \in {"male", "female"},
        mh \in {Str(16500), Absent, Num(0), Text},
        ph \in {Num(18000), Absent, Text} }

\* a weight, height or head circumference that is a boolean, an array or an
\* object, alone or next to a numeric height
TypeRequests ==
    { Request(NominalBirth, NominalMeasurement, "male", w, h, o, NoGestation) :
        w \in {Absent, Bool(TRUE), Bool(FALSE), Array(2), Array(0), Object(2), Object(0)},
        h \in {Absent, NominalHeight, Array(2)},
        o \in {Absent, Bool(TRUE), Object(2)} }

Requests ==
    DateGestationRequests \cup PresenceRequests \cup WeightRequests
        \cup RequiredFieldRequests \cup PreviousRequests \cup BoneAgeRequests
        \cup ParentRequests \cup TypeRequests

----------------------------------------------------------------------------
(* calculate(): parsing of the request (app.py 43-75)                      *)

\* data.get(field) is truthy
RawTruthy(raw) ==
    \/ raw.k \in {"str", "text"}
    \/ raw.k = "num" /\ raw.v # 0
    \/ raw.k \in {"bool", "array", "object"} /\ raw.v # 0

\* float(data[field]) raises ValueError
FloatRaises(raw) == RawTruthy(raw) /\ raw.k = "text"

\* float(data[field]) raises TypeError
FloatTypeError(raw) == RawTruthy(raw) /\ raw.k \in {"array", "object"}

\* float(data[field]) if data.get(field) else None
ParseFloat(raw) == IF RawTruthy(raw) THEN Some(raw.v) ELSE None

\* str(e) of an exception, the failed SDS gate or the missing measurements
Error(kind, about, sds) == [kind |-> kind, about |-> about, sds |-> sds]

\* any([weight, height, ofc]) without the OFC
AnyMeasurementNoOfc(weight, height, ofc) == Truthy(weight) \/ Truthy(height)

\* any([weight, height, ofc])
AnyMeasurement(weight, height, ofc) ==
    Truthy(weight) \/ Truthy(height) \/ Truthy(ofc)

\* the first failure of lines 46-61 in program order, or None
ParseError(r) ==
    IF r.birth_date.k = "missing" THEN Some(Error("KeyError", "birth_date", None))
    ELSE IF ~ValidYmd(r.birth_date) THEN Some(Error("ValueError", "birth_date", None))
    ELSE IF r.measurement_date.k = "missing"
    THEN Some(Error("KeyError", "measurement_date", None))
    ELSE IF ~ValidYmd(r.measurement_date)
    THEN Some(Error("ValueError", "measurement_date", None))
    ELSE IF r.sex = "missing" THEN Some(Error("KeyError", "sex", None))
    ELSE IF FloatRaises(r.weight) THEN Some(Error("ValueError", "weight", None))
    ELSE IF FloatTypeError(r.weight) THEN Some(Error("TypeError", "weight", None))
    ELSE IF FloatRaises(r.height) THEN Some(Error("ValueError", "height", None))
    ELSE IF FloatTypeError(r.height) THEN Some(Error("TypeError", "height", None))
    ELSE IF FloatRaises(r.ofc) THEN Some(Error("ValueError", "ofc", None))
    ELSE IF FloatTypeError(r.ofc) THEN Some(Error("TypeError", "ofc", None))
    ELSE IF ~AnyMeasurement(ParseFloat(r.weight), ParseFloat(r.height), ParseFloat(r.ofc))
    THEN Some(Error("MissingMeasurement", "measurement", None))
    ELSE IF FloatRaises(r.maternal_height)
    THEN Some(Error("ValueError", "maternal_height", None))
    ELSE IF FloatRaises(r.paternal_height)
    THEN Some(Error("ValueError", "paternal_height", None))
    ELSE None

\* the local variables of calculate() after line 75
Parsed(r) ==
    [birth_date |-> Some(strptime(r.birth_date)),
     measurement_date |-> Some(strptime(r.measurement_date)),
     sex |-> r.sex,
     weight |-> ParseFloat(r.weight),
     height |-> ParseFloat(r.height),
     ofc |-> ParseFloat(r.ofc),
     gestation_weeks |-> r.gestation_weeks,
     gestation_days |-> r.gestation_days,
     previous_measurements |-> r.previous_measurements,
     bone_age_assessments |-> r.bone_age_assessments,
     maternal_height |-> ParseFloat(r.maternal_height),
     paternal_height |-> ParseFloat(r.paternal_height)]

NoInput ==
    [birth_date |-> None, measurement_date |-> None, sex |-> "",
     weight |-> None, height |-> None, ofc |-> None,
     gestation_weeks |-> None, gestation_days |-> None,
     previous_measurements |-> <<>>, bone_age_assessments |-> <<>>,
     maternal_height |-> None, paternal_height |-> None]

----------------------------------------------------------------------------
(* The response                                                            *)

NoResponse == [success |-> FALSE, status |-> 0, error |-> None, results |-> None]

\* a rejection that still carries a results object
RejectWithResults(err) ==
    [success |-> FALSE, status |-> 400, error |-> Some(err),
     results |-> Some([validation_messages |-> <<>>])]

\* jsonify({'success': False, 'error': ...}), 400
Reject(err) ==
    [success |-> FALSE, status |-> 400, error |-> Some(err), results |-> None]

\* jsonify({'success': True, 'results': results})
Accept(results) ==
    [success |-> TRUE, status |-> 200, error |-> None, results |-> Some(results)]

----------------------------------------------------------------------------
(* The growth-reference collaborator (rcpchgrowth.Measurement)             *)

\* measurement_calculated_values: corrected_sds and corrected_centile
Outcome(sds, centile) == [sds |-> sds, centile |-> centile]

\* an unremarkable result: SDS 1.234, centile 89.14
Nominal == Outcome(Some(1234), Some(89140))

\* what the collaborator may report for a weight, height or OFC: results
\* on both sides of the limits 4 and 8, a zero SDS, a zero centile, nulls
ReferenceOutcomes ==
    {Nominal, Outcome(None, None), Outcome(Some(0), Some(50000)),
     Outcome(Some(-8001), Some(0)), Outcome(Some(-4001), Some(3)),
     Outcome(Some(4000), Some(99997)), Outcome(Some(4001), Some(99997)),
     Outcome(Some(8000), Some(100000)), Outcome(Some(8001), Some(100000))}

\* the same for a BMI, on both sides of the limits 4 and 15
BmiOutcomes ==
    {Nominal, Outcome(None, None), Outcome(Some(0), Some(50000)),
     Outcome(Some(-15001), Some(0)), Outcome(Some(4001), Some(99997)),
     Outcome(Some(8001), Some(100000)),
     Outcome(Some(15000), Some(100000)), Outcome(Some(15001), Some(100000))}

\* results for the gestation-corrected age
CorrectedOutcomes ==
    {Nominal, Outcome(Some(0), Some(50000)), Outcome(Some(9000), Some(100000)),
     Outcome(Some(16000), Some(100000))}

\* the Measurement objects calculate() builds, in program order
CallOrder ==
    <<"weight", "height", "bmi", "ofc",
      "weight_corrected", "height_corrected", "bmi_corrected", "ofc_corrected">>

CallNames == {CallOrder[i] : i \in 1..Len(CallOrder)}

ChronologicalCalls == {"weight", "height", "bmi", "ofc"}

OutcomesOf(c) ==
    IF c = "bmi" THEN BmiOutcomes
    ELSE IF c \in ChronologicalCalls THEN ReferenceOutcomes
    ELSE CorrectedOutcomes

\* the measurement a call resolves
MethodOf(c) ==
    IF c \in {"weight", "weight_corrected"} THEN "weight"
    ELSE IF c \in {"height", "height_corrected"} THEN "height"
    ELSE IF c \in {"bmi", "bmi_corrected"} THEN "bmi"
    ELSE "ofc"

\* `if weight:`, `if height:`, `if weight and height:`, `if ofc:`
Provided(i, method) ==
    IF method = "weight" THEN Truthy(i.weight)
    ELSE IF method = "height" THEN Truthy(i.height)
    ELSE IF method = "bmi" THEN Truthy(i.weight) /\ Truthy(i.height)
    ELSE Truthy(i.ofc)

\* the condition under which calculate() builds the object (97-192)
Needed(i, a, c) ==
    IF c \in ChronologicalCalls THEN Provided(i, c)
    ELSE /\ a.apply_correction
         /\ Truthy(i.gestation_weeks)
         /\ Provided(i, MethodOf(c))

Plan(i, a) == SelectSeq(CallOrder, LAMBDA c : Needed(i, a, c))

NoMeasurements == [c \in CallNames |-> None]

\* collaborator results of this request that are not the nominal one
ExtremeCount == Cardinality({c \in CallNames : meas[c] # None /\ meas[c] # Some(Nominal)})

MaxExtreme == 2

----------------------------------------------------------------------------
(* calculate(): the SDS gate (app.py 487-538)                              *)

SDS_HARD == 8

BMI_SDS_HARD == 15

SDS_WARNING == 4

HardLimit(method) == (IF method = "bmi" THEN BMI_SDS_HARD ELSE SDS_HARD) * 1000

\* the hard limit with `>=` for `>`
ExceedsHardInclusive(method, sds) == Abs(sds) >= HardLimit(method)

\* abs(sds) > 8, or > 15 for the BMI
ExceedsHard(method, sds) == Abs(sds) > HardLimit(method)

\* the advisory limit with `>=` for `>`
IsVeryExtremeInclusive(sds) == Abs(sds) >= SDS_WARNING * 1000

\* abs(sds) > 4
IsVeryExtreme(sds) == Abs(sds) > SDS_WARNING * 1000

\* float(calc['corrected_sds']) if calc and calc['corrected_sds'] else None
GateSds(ms, method) ==
    IF ms[method] # None /\ Truthy(The(ms[method]).sds)
    THEN The(ms[method]).sds ELSE None

GateOrder == <<"weight", "height", "bmi", "ofc">>

Rejects(ms, method) ==
    GateSds(ms, method) # None /\ ExceedsHard(method, The(GateSds(ms, method)))

Warns(ms, method) ==
    /\ GateSds(ms, method) # None
    /\ ~ExceedsHard(method, The(GateSds(ms, method)))
    /\ IsVeryExtreme(The(GateSds(ms, method)))

\* the last measurement, in the order of the checks, beyond its hard limit
GateViolationLast(ms) ==
    LET bad == {k \in 1..Len(GateOrder) : Rejects(ms, GateOrder[k])}
    IN IF bad = {} THEN None
       ELSE Some(GateOrder[CHOOSE k \in bad : \A j \in bad : k >= j])

\* the first measurement, in the order of the checks, beyond its hard
\* limit: the request is rejected there
GateViolation(ms) ==
    LET bad == {k \in 1..Len(GateOrder) : Rejects(ms, GateOrder[k])}
    IN IF bad = {} THEN None
       ELSE Some(GateOrder[CHOOSE k \in bad : \A j \in bad : k <= j])

\* the text of a gate message names the measurement and shows the SDS
\* with 2 decimals
GateText(ms, method) == [measure |-> method, sds |-> Round2(The(GateSds(ms, method)))]

\* validation_messages of a request that passes the gate
GateMessages(ms) ==
    LET warned == SelectSeq(GateOrder, LAMBDA m : Warns(ms, m))
    IN [k \in 1..Len(warned) |-> GateText(ms, warned[k])]

----------------------------------------------------------------------------
(* calculate(): the results object (app.py 540-627)                        *)

\* round(float(x), 2) if x else None
RoundedIfTruthy(x) == IF Truthy(x) THEN Some(Round2(The(x))) ELSE None

\* BMI = weight / (height / 100) ** 2, rounded to 1 decimal (in tenths);
\* the heights of the modelled requests are whole centimetres
BmiValue(i) ==
    LET cm == The(i.height) \div 100
    IN RoundDiv(The(i.weight) * 1000, cm * cm)

BlockValue(i, method) ==
    IF method = "weight" THEN The(i.weight)
    ELSE IF method = "height" THEN The(i.height)
    ELSE IF method = "bmi" THEN BmiValue(i)
    ELSE The(i.ofc)

\* 'weight', 'height', 'bmi' and ofc_data
ChronologicalBlock(i, ms, method) ==
    IF ~Provided(i, method) THEN None
    ELSE Some([value   |-> BlockValue(i, method),
               centile |-> RoundedIfTruthy(The(ms[method]).centile),
               sds     |-> IF GateSds(ms, method) # None
                           THEN Some(Round2(The(GateSds(ms, method)))) ELSE None])

\* round(age, 2) of an age numerator
RoundAge(ageNum) == RoundDiv(ageNum * 100, AgeDen)

\* the corrected block without the test of apply_correction
CorrectedBlockUnguarded(i, a, ms, c) ==
    IF ~Provided(i, MethodOf(c)) THEN None
    ELSE Some([age     |-> IF a.corrected_age_decimal = None THEN 0
                           ELSE RoundAge(The(a.corrected_age_decimal)),
               value   |-> BlockValue(i, MethodOf(c)),
               centile |-> IF ms[c] = None THEN None
                           ELSE RoundedIfTruthy(The(ms[c]).centile),
               sds     |-> IF ms[c] = None THEN None
                           ELSE RoundedIfTruthy(The(ms[c]).sds)])

\* weight_corrected_data, height_corrected_data, bmi_corrected_data,
\* ofc_corrected_data (552-587)
CorrectedBlock(i, a, ms, c) ==
    IF ~(a.apply_correction /\ ms[c] # None) THEN None
    ELSE Some([age     |-> RoundAge(The(a.corrected_age_decimal)),
               value   |-> BlockValue(i, MethodOf(c)),
               centile |-> RoundedIfTruthy(The(ms[c]).centile),
               sds     |-> RoundedIfTruthy(The(ms[c]).sds)])

Results(i, a, ms) ==
    [age_years |-> RoundAge(a.age_decimal),
     age_calendar |-> a.calendar_age,
     gestation_correction_applied |-> a.apply_correction,
     corrected_age_years |->
         IF Truthy(a.corrected_age_decimal)
         THEN Some(RoundAge(The(a.corrected_age_decimal))) ELSE None,
     corrected_age_calendar |-> a.corrected_calendar_age,
     weight |-> ChronologicalBlock(i, ms, "weight"),
     height |-> ChronologicalBlock(i, ms, "height"),
     bmi |-> ChronologicalBlock(i, ms, "bmi"),
     ofc |-> ChronologicalBlock(i, ms, "ofc"),
     weight_corrected |-> CorrectedBlock(i, a, ms, "weight_corrected"),
     height_corrected |-> CorrectedBlock(i, a, ms, "height_corrected"),
     bmi_corrected |-> CorrectedBlock(i, a, ms, "bmi_corrected"),
     ofc_corrected |-> CorrectedBlock(i, a, ms, "ofc_corrected"),
     validation_messages |-> GateMessages(ms)]

----------------------------------------------------------------------------
(* calculations.py: height velocity                                        *)

\* min_days = 122, about 4 months
min_days == 122

\* 30.44 days per month, in hundredths of a day
DAYS_PER_MONTH_X100 == 3044

\* a result of calculate_height_velocity: the value in tenths of cm/year
Velocity(value, message, months) ==
    [value |-> value, message |-> message, months |-> months]

\* the velocity from the absolute height difference
calculate_height_velocity_abs(current_height, previous_height, current_date, previous_date) ==
    IF ~Truthy(current_height) \/ ~Truthy(previous_height)
           \/ current_date = None \/ previous_date = None
    THEN None
    ELSE LET height_diff == Abs(The(current_height) - The(previous_height))
             time_diff_days == DaysBetween(The(current_date), The(previous_date))
         IN IF time_diff_days <= 0
            THEN Some(Velocity(None, Some("PreviousNotBefore"), None))
            ELSE IF time_diff_days < min_days
            THEN Some(Velocity(None, Some("IntervalTooShort"),
                               Some(RoundDiv(time_diff_days * 1000, DAYS_PER_MONTH_X100))))
            ELSE Some(Velocity(Some(RoundDiv(height_diff * DAYS_PER_YEAR_X4,
                                             40 * time_diff_days)), None, None))

\* the velocity with an interval of exactly min_days taken as too short
calculate_height_velocity_strict(current_height, previous_height, current_date, previous_date) ==
    IF ~Truthy(current_height) \/ ~Truthy(previous_height)
           \/ current_date = None \/ previous_date = None
    THEN None
    ELSE LET height_diff == The(current_height) - The(previous_height)
             time_diff_days == DaysBetween(The(current_date), The(previous_date))
         IN IF time_diff_days <= 0
            THEN Some(Velocity(None, Some("PreviousNotBefore"), None))
            ELSE IF time_diff_days <= min_days
            THEN Some(Velocity(None, Some("IntervalTooShort"),
                               Some(RoundDiv(time_diff_days * 1000, DAYS_PER_MONTH_X100))))
            ELSE Some(Velocity(Some(RoundDiv(height_diff * DAYS_PER_YEAR_X4,
                                             40 * time_diff_days)), None, None))

\* calculate_height_velocity: heights in hundredths of a cm; the velocity
\* (height_diff / time_diff_days) * 365.25 rounded to 1 decimal, the
\* interval in months rounded to 1 decimal for the message
calculate_height_velocity(current_height, previous_height, current_date, previous_date) ==
    IF ~Truthy(current_height) \/ ~Truthy(previous_height)
           \/ current_date = None \/ previous_date = None
    THEN None
    ELSE LET height_diff == The(current_height) - The(previous_height)
             time_diff_days == DaysBetween(The(current_date), The(previous_date))
         IN IF time_diff_days <= 0
            THEN Some(Velocity(None, Some("PreviousNotBefore"), None))
            ELSE IF time_diff_days < min_days
            THEN Some(Velocity(None, Some("IntervalTooShort"),
                               Some(RoundDiv(time_diff_days * 1000, DAYS_PER_MONTH_X100))))
            ELSE Some(Velocity(Some(RoundDiv(height_diff * DAYS_PER_YEAR_X4,
                                             40 * time_diff_days)), None, None))

----------------------------------------------------------------------------
(* calculations.py: growth hormone dose                                    *)

GH_DOSE_STANDARD == 7

WEIGHT_TO_GRAMS == 1000

\* round() of the float nearest to n/d, n >= 0: the nearest integer; where
\* n/d is a decimal tie the float lies on either side of it, up or down
RoundNearest(n, d, up) ==
    LET q == n \div d
        r == n % d
    IN IF 2 * r < d THEN q
       ELSE IF 2 * r > d THEN q + 1
       ELSE IF up THEN q + 1 ELSE q

\* the dict returned by calculate_gh_dose, each value in tenths
GhDose(mg_per_day, mg_m2_week, mcg_kg_day) ==
    [mg_per_day |-> mg_per_day, mg_m2_week |-> mg_m2_week,
     mcg_kg_day |-> mcg_kg_day]

\* the daily dose rounded to the nearest whole mg
calculate_gh_dose_whole_mg(bsa, weight_kg, ties) ==
    IF ~Truthy(bsa) \/ ~Truthy(weight_kg) THEN None
    ELSE LET mg_per_day_rounded ==
                 10 * RoundNearest(GH_DOSE_STANDARD * The(bsa),
                                   DAYS_PER_WEEK * 100, ties[1])
         IN Some(GhDose(mg_per_day_rounded,
                        RoundNearest(100 * mg_per_day_rounded * DAYS_PER_WEEK,
                                     The(bsa), ties[2]),
                        RoundNearest(mg_per_day_rounded * WEIGHT_TO_GRAMS * 100,
                                     The(weight_kg), ties[3])))

\* bsa in hundredths of a square metre, weight_kg in hundredths of a kg;
\* ties[k] is the direction the k-th round() takes at a decimal tie
calculate_gh_dose(bsa, weight_kg, ties) ==
    IF ~Truthy(bsa) \/ ~Truthy(weight_kg) THEN None
    ELSE LET mg_per_day_rounded ==
                 RoundNearest(GH_DOSE_STANDARD * The(bsa),
                              DAYS_PER_WEEK * 10, ties[1])
         IN Some(GhDose(mg_per_day_rounded,
                        RoundNearest(100 * mg_per_day_rounded * DAYS_PER_WEEK,
                                     The(bsa), ties[2]),
                        RoundNearest(mg_per_day_rounded * WEIGHT_TO_GRAMS * 100,
                                     The(weight_kg), ties[3])))

----------------------------------------------------------------------------
(* calculate(): previous measurements and height velocity (app.py 194-340) *)

PrevMethods == {"height", "weight", "ofc"}

\* what the collaborator may report for a previous measurement
PreviousOutcomes == {Nominal, Outcome(Some(0), Some(0))}

\* date.isoformat(): the text of a date
isoformat(dt) == Ymd(dt.y, dt.m, dt.d)

\* only a date that does not parse taken as malformed
PrevMalformedDateOnly(e) == ~ValidYmd(e.date)

\* prev_measurement['date'] is missing or no date, or the float() of a
\* supplied measure raises: the entry is skipped (except clause, 278-281)
PrevMalformed(e) ==
    \/ ~ValidYmd(e.date)
    \/ \E m \in PrevMethods : FloatRaises(e[m])

\* the block of one measure of a previous measurement (233-276)
PrevBlock(e, m, o) ==
    IF ~RawTruthy(e[m]) THEN None
    ELSE Some([value   |-> e[m].v,
               centile |-> RoundedIfTruthy(o.centile),
               sds     |-> IF Truthy(o.sds) THEN Some(Round2(The(o.sds))) ELSE None])

\* processed_measurement (208-276); os gives the collaborator's result for
\* each measure
ProcessedPrevious(i, e, os) ==
    [date   |-> isoformat(strptime(e.date)),
     age    |-> RoundAge(calculate_age_in_years(The(i.birth_date),
                                                strptime(e.date)).decimal),
     height |-> PrevBlock(e, "height", os["height"]),
     weight |-> PrevBlock(e, "weight", os["weight"]),
     ofc    |-> PrevBlock(e, "ofc", os["ofc"])]

\* the first entry of the list with the latest date: the head of the list
\* after the stable sort by date, most recent first (311-317)
MostRecent(pms) ==
    pms[CHOOSE k \in 1..Len(pms) :
            \A j \in 1..Len(pms) :
                /\ toordinal(strptime(pms[j].date)) <= toordinal(strptime(pms[k].date))
                /\ j < k => toordinal(strptime(pms[j].date))
                                < toordinal(strptime(pms[k].date))]

\* height_velocity and previous_height_data
VelocityData(height_velocity, previous_height) ==
    [height_velocity |-> height_velocity, previous_height |-> previous_height]

\* a previous date after the measurement date only
IsNotBeforeStrict(pm, measurement_date) ==
    toordinal(strptime(pm.date)) > toordinal(measurement_date)

\* pm_date >= measurement_date (296-299)
IsNotBefore(pm, measurement_date) ==
    toordinal(strptime(pm.date)) >= toordinal(measurement_date)

\* every interval taken as long enough
IsLongEnoughAlways(pm, measurement_date) == TRUE

\* an interval of 122 days taken as long enough
IsLongEnoughInclusive(pm, measurement_date) ==
    DaysBetween(measurement_date, strptime(pm.date)) >= 122

\* (measurement_date - pm_date).days > 122 (304-307)
IsLongEnough(pm, measurement_date) ==
    DaysBetween(measurement_date, strptime(pm.date)) > 122

\* lines 283-340: the previous height the velocity is computed against;
\* each list is bound to its value once
SelectVelocity(i, out) ==
    IF ~Truthy(i.height) THEN VelocityData(None, None)
    ELSE The({
        IF all_height_measurements = <<>> THEN VelocityData(None, None)
        ELSE IF \E k \in 1..Len(all_height_measurements) :
                    IsNotBefore(all_height_measurements[k], The(i.measurement_date))
        THEN VelocityData(Some(Velocity(None, Some("PreviousNotBefore"), None)), None)
        ELSE The({
            IF valid_height_measurements = <<>>
            THEN VelocityData(Some(Velocity(None, Some("AtLeastFourMonths"), None)),
                              None)
            ELSE The({
                VelocityData(
                    calculate_height_velocity(
                        i.height, Some(The(most_recent.height).value),
                        i.measurement_date, Some(strptime(most_recent.date))),
                    most_recent.height) :
                most_recent \in {MostRecent(valid_height_measurements)} }) :
            valid_height_measurements \in
                {SelectSeq(all_height_measurements,
                           LAMBDA pm : IsLongEnough(pm, The(i.measurement_date)))} }) :
        all_height_measurements \in {SelectSeq(out, LAMBDA pm : pm.height # None)} })

----------------------------------------------------------------------------
(* calculate(): bone age assessments (app.py 342-395)                      *)

\* what the collaborator may report for the height at the bone age
BoneOutcomes == {Nominal, Outcome(Some(0), Some(0))}

\* float(assessment['bone_age']) raises TypeError: the value is null
BoneAgeTypeError(a) == ValidYmd(a.date) /\ a.bone_age.k = "null"

\* strptime(assessment['date']) or float(assessment['bone_age']) raises
\* KeyError or ValueError: no date, no bone_age, or not a number
BoneMalformed(a) ==
    \/ ~ValidYmd(a.date)
    \/ a.bone_age.k \in {"absent", "text"}

\* the window without abs()
IsWithinWindowSigned(measurement_date, assessment_date) ==
    DaysBetween(measurement_date, assessment_date) * 100 <= 3044

\* abs((measurement_date - assessment_date).days) <= 30.44 (354-357)
IsWithinWindow(measurement_date, assessment_date) ==
    Abs(DaysBetween(measurement_date, assessment_date)) * 100 <= 3044

\* the assessment is read without an exception and lies in the window
BoneCalled(i, a) ==
    /\ ~BoneMalformed(a) /\ ~BoneAgeTypeError(a)
    /\ IsWithinWindow(The(i.measurement_date), strptime(a.date))

\* assessment_data (376-384)
AssessmentData(i, a, o) ==
    [bone_age        |-> a.bone_age.v,
     assessment_date |-> isoformat(strptime(a.date)),
     standard        |-> a.standard,
     height          |-> The(i.height),
     centile         |-> RoundedIfTruthy(o.centile),
     sds             |-> IF Truthy(o.sds) THEN Some(Round2(The(o.sds))) ELSE None,
     within_window   |-> TRUE]

\* the assessment to plot: a TW3 one replaces the one chosen before
\* (388-390)
ForPlotting(plot, data) ==
    IF plot = None \/ data.standard = "tw3" THEN Some(data) ELSE plot

----------------------------------------------------------------------------
(* calculate(): mid-parental height (app.py 414-462)                       *)

\* the collaborator's height at an SDS for age 18: base + per_sd * SDS, a
\* strictly increasing map; heights in hundredths of a cm, SDS in
\* thousandths
HeightMap(base, per_sd) == [base |-> base, per_sd |-> per_sd]

\* 7 cm and 0.02 cm to the standard deviation
HeightMaps == {HeightMap(17700, 700), HeightMap(16360, 2)}

measurement_from_sds(map, requested_sds) ==
    map.base + (map.per_sd * requested_sds) \div 1000

\* half the width of the collaborator's band of expected height SDS
LimitOffsets == {1000}

\* lower_and_upper_limits_of_expected_height_z: a band around the SDS
lower_and_upper_limits_of_expected_height_z(mid_parental_height_z, offset) ==
    [lower_z |-> mid_parental_height_z - offset,
     upper_z |-> mid_parental_height_z + offset]

\* what the collaborator answers for a pair of parental heights: the
\* mid-parental height, its SDS, and the map and band used for the target
\* range
MphOutcome(mph_cm, mph_z, map, offset) ==
    [mph_cm |-> mph_cm, mph_z |-> mph_z, map |-> map, offset |-> offset]

\* the mid-parental height is the height at its SDS on the map, or a
\* height of its own
MphOutcomes ==
    { MphOutcome(measurement_from_sds(map, z), z, map, d) :
        z \in {0, 1000}, map \in HeightMaps, d \in LimitOffsets }
    \cup
    { MphOutcome(20300, z, map, d) :
        z \in {0, 1000}, map \in HeightMaps, d \in LimitOffsets }

\* round(norm_cdf(z) * 100, 1) in tenths, at the SDS of the outcomes
NormCdfValues == {<<0, 500>>, <<1000, 841>>}

norm_cdf(z) == (CHOOSE r \in NormCdfValues : r[1] = z)[2]

\* mph_data with the two ends of the target range exchanged
MphDataSwapped(o) ==
    LET limits == lower_and_upper_limits_of_expected_height_z(o.mph_z, o.offset)
    IN [mid_parental_height |-> RoundDiv(o.mph_cm, 10),
        mid_parental_height_sds |-> Round2(o.mph_z),
        mid_parental_height_centile |-> norm_cdf(o.mph_z),
        target_range_lower |->
            RoundDiv(measurement_from_sds(o.map, limits.upper_z), 10),
        target_range_upper |->
            RoundDiv(measurement_from_sds(o.map, limits.lower_z), 10)]

\* mph_data (456-462): heights and centile in tenths, the SDS in hundredths
MphData(o) ==
    LET limits == lower_and_upper_limits_of_expected_height_z(o.mph_z, o.offset)
    IN [mid_parental_height |-> RoundDiv(o.mph_cm, 10),
        mid_parental_height_sds |-> Round2(o.mph_z),
        mid_parental_height_centile |-> norm_cdf(o.mph_z),
        target_range_lower |->
            RoundDiv(measurement_from_sds(o.map, limits.lower_z), 10),
        target_range_upper |->
            RoundDiv(measurement_from_sds(o.map, limits.upper_z), 10)]

----------------------------------------------------------------------------
(* calculations.py: body surface area                                      *)

\* round(0.0003207 * height_cm ** 0.3 * weight_g ** (0.7285 - 0.0188 *
\* log10(weight_g)), 2) at the weights and heights of the modelled
\* requests: <<weight, height, BSA>>, all in hundredths
BoydValues ==
    {<<9, 6700, 3>>, <<10, 6700, 3>>, <<100, 6700, 12>>, <<750, 6700, 39>>,
     <<30000, 6700, 302>>, <<30010, 6700, 302>>}

calculate_boyd_bsa(weight_kg, height_cm) ==
    IF weight_kg <= 0 \/ height_cm <= 0 THEN None
    ELSE Some((CHOOSE r \in BoydValues : r[1] = weight_kg /\ r[2] = height_cm)[3])

\* the cBNF table: <<weight, BSA>> in hundredths of a kg and of a m2
lookup_table ==
    {<<100, 10>>, <<150, 13>>, <<200, 16>>, <<250, 19>>, <<300, 21>>,
     <<350, 24>>, <<400, 26>>, <<450, 28>>, <<500, 30>>, <<550, 32>>,
     <<600, 34>>, <<650, 36>>, <<700, 38>>, <<750, 40>>, <<800, 42>>,
     <<850, 44>>, <<900, 46>>, <<950, 47>>, <<1000, 49>>, <<1100, 53>>,
     <<1200, 56>>, <<1300, 59>>, <<1400, 62>>, <<1500, 65>>, <<1600, 68>>,
     <<1700, 71>>, <<1800, 74>>, <<1900, 77>>, <<2000, 79>>, <<2100, 82>>,
     <<2200, 85>>, <<2300, 87>>, <<2400, 90>>, <<2500, 92>>, <<2600, 95>>,
     <<2700, 97>>, <<2800, 100>>, <<2900, 100>>, <<3000, 110>>,
     <<3100, 110>>, <<3200, 110>>, <<3300, 110>>, <<3400, 110>>,
     <<3500, 120>>, <<3600, 120>>, <<3700, 120>>, <<3800, 120>>,
     <<3900, 130>>, <<4000, 130>>, <<4100, 130>>, <<4200, 130>>,
     <<4300, 130>>, <<4400, 140>>, <<4500, 140>>, <<4600, 140>>,
     <<4700, 140>>, <<4800, 140>>, <<4900, 150>>, <<5000, 150>>,
     <<5100, 150>>, <<5200, 150>>, <<5300, 150>>, <<5400, 160>>,
     <<5500, 160>>, <<5600, 160>>, <<5700, 160>>, <<5800, 160>>,
     <<5900, 170>>, <<6000, 170>>, <<6100, 170>>, <<6200, 170>>,
     <<6300, 170>>, <<6400, 170>>, <<6500, 180>>, <<6600, 180>>,
     <<6700, 180>>, <<6800, 180>>, <<6900, 180>>, <<7000, 190>>,
     <<7100, 190>>, <<7200, 190>>, <<7300, 190>>, <<7400, 190>>,
     <<7500, 190>>, <<7600, 200>>, <<7700, 200>>, <<7800, 200>>,
     <<7900, 200>>, <<8000, 200>>, <<8100, 200>>, <<8200, 210>>,
     <<8300, 210>>, <<8400, 210>>, <<8500, 210>>, <<8600, 210>>,
     <<8700, 210>>, <<8800, 220>>, <<8900, 220>>, <<9000, 220>>}

TableWeights == {r[1] : r \in lookup_table}

TableBsa(w) == (CHOOSE r \in lookup_table : r[1] = w)[2]

\* weights = sorted(lookup_table.keys()): its first, last and last but one
FirstWeight == CHOOSE w \in TableWeights : \A v \in TableWeights : w <= v

LastWeight == CHOOSE w \in TableWeights : \A v \in TableWeights : w >= v

LastButOneWeight ==
    CHOOSE w \in TableWeights \ {LastWeight} :
        \A v \in TableWeights \ {LastWeight} : w >= v

\* the table weight that follows w
NextWeight(w) ==
    CHOOSE x \in TableWeights :
        x > w /\ \A v \in TableWeights : v > w => x <= v

\* the table weight w1 of the line: the first below the table, the last
\* but one above it, else the greatest table weight below weight_kg
LineStart(weight_kg) ==
    IF weight_kg < FirstWeight THEN FirstWeight
    ELSE IF weight_kg > LastWeight THEN LastButOneWeight
    ELSE CHOOSE w \in TableWeights :
             w < weight_kg /\ \A v \in TableWeights : v < weight_kg => v <= w

\* the line through the first two rows of the table for every weight
calculate_cbnf_bsa_first_line(weight_kg) ==
    IF weight_kg <= 0 THEN None
    ELSE IF weight_kg \in TableWeights THEN Some(TableBsa(weight_kg))
    ELSE { RoundDiv(TableBsa(FirstWeight) * (NextWeight(FirstWeight) - FirstWeight)
                        + (TableBsa(NextWeight(FirstWeight)) - TableBsa(FirstWeight))
                              * (weight_kg - FirstWeight),
                    NextWeight(FirstWeight) - FirstWeight) }

\* the table value, or the line through the two nearest rows rounded to 2
\* decimals: bsa1 + slope * (weight_kg - w1), and above the table
\* bsa2 + slope * (weight_kg - w2)
calculate_cbnf_bsa(weight_kg) ==
    IF weight_kg <= 0 THEN None
    ELSE IF weight_kg \in TableWeights THEN Some(TableBsa(weight_kg))
    ELSE { RoundDiv(TableBsa(l[3]) * (l[2] - l[1])
                        + (TableBsa(l[2]) - TableBsa(l[1])) * (weight_kg - l[3]),
                    l[2] - l[1]) :
             l \in { <<w[1], w[2], IF weight_kg > LastWeight THEN w[2] ELSE w[1]>> :
                        w \in { <<w1, NextWeight(w1)>> :
                                   w1 \in {LineStart(weight_kg)} } } }

\* bsa and bsa_method (app.py 397-407)
Bsa(i) ==
    IF Truthy(i.weight) /\ Truthy(i.height)
    THEN [bsa |-> calculate_boyd_bsa(The(i.weight), The(i.height)),
          bsa_method |-> Some("Boyd")]
    ELSE IF Truthy(i.weight)
    THEN [bsa |-> calculate_cbnf_bsa(The(i.weight)), bsa_method |-> Some("cBNF")]
    ELSE [bsa |-> None, bsa_method |-> None]

----------------------------------------------------------------------------
(* utils.py: percentage of the median BMI                                  *)

\* what the collaborator's percentage_median_bmi does: it raises, or it
\* returns null or a percentage (in hundredths)
PmbOutcome(raises, percentage) == [raises |-> raises, percentage |-> percentage]

PmbOutcomes ==
    {PmbOutcome(TRUE, None), PmbOutcome(FALSE, None),
     PmbOutcome(FALSE, Some(9876)), PmbOutcome(FALSE, Some(10000))}

\* what calculate_percentage_median_bmi does: it raises or returns
PmbReturn(raises, value) == [raises |-> raises, value |-> value]

\* the function without its try/except
calculate_percentage_median_bmi_uncaught(o) ==
    IF o.raises THEN PmbReturn(TRUE, None)
    ELSE IF o.percentage # None
    THEN PmbReturn(FALSE, Some(RoundDiv(The(o.percentage), 10)))
    ELSE PmbReturn(FALSE, None)

\* round(percentage, 1) if percentage is not None else None; None when the
\* collaborator raises (utils.py 47-56); the value is in tenths
calculate_percentage_median_bmi(o) ==
    IF o.raises THEN PmbReturn(FALSE, None)
    ELSE IF o.percentage # None
    THEN PmbReturn(FALSE, Some(RoundDiv(The(o.percentage), 10)))
    ELSE PmbReturn(FALSE, None)

----------------------------------------------------------------------------
(* calculate(): the whole results object (app.py 589-627)                  *)

\* pv, bn, mp and pm are what the steps after the measurements left
ResultsObject(i, a, ms, pv, bn, mp, pm, ties) ==
    [Results(i, a, ms) EXCEPT
         !.bmi = IF @ = None THEN None
                 ELSE Some(The(@) @@ [percentage_median |-> pm.value])]
    @@
    The({ [height_velocity |-> v.height_velocity,
           previous_height |-> v.previous_height,
           previous_measurements |-> pv.out,
           bone_age_height |-> bn.plot,
           bone_age_assessments |-> bn.out,
           bsa |-> b.bsa,
           bsa_method |-> b.bsa_method,
           gh_dose |-> IF Truthy(b.bsa) /\ Truthy(i.weight)
                       THEN calculate_gh_dose(b.bsa, i.weight, ties) ELSE None,
           mid_parental_height |-> mp] :
            v \in {SelectVelocity(i, pv.out)}, b \in {Bsa(i)} })

\* the steps of calculate() between the measurements and the SDS gate, in
\* program order
StepOrder == <<"Previous", "BoneAge", "Mph", "Pmb">>

\* `if previous_measurements:` (199), `if height and bone_age_assessments:`
\* (345), `if maternal_height and paternal_height:` (416),
\* `if bmi_measurement:` (475)
StepNeeded(i, step) ==
    IF step = "Previous" THEN i.previous_measurements # <<>>
    ELSE IF step = "BoneAge" THEN Truthy(i.height) /\ i.bone_age_assessments # <<>>
    ELSE IF step = "Mph" THEN Truthy(i.maternal_height) /\ Truthy(i.paternal_height)
    ELSE Provided(i, "bmi")

\* the step that follows the n-th of them
StepAfter(i, n) ==
    LET todo == {k \in (n + 1)..Len(StepOrder) : StepNeeded(i, StepOrder[k])}
    IN IF todo = {} THEN "Computed"
       ELSE StepOrder[CHOOSE k \in todo : \A j \in todo : k <= j]

----------------------------------------------------------------------------
(* The handler as a state machine                                          *)

NoAge == None

\* nothing processed yet; no request counted by the limiter
NoPrevs == [done |-> 0, out |-> <<>>, kept |-> <<>>, raised |-> {}]

NoBones == [done |-> 0, out |-> <<>>, kept |-> <<>>, raised |-> {}, plot |-> None]

\* the collaborator's answer and mph_data
NoMph == [raw |-> None, data |-> None]

NoPmb == [called |-> FALSE, raised |-> FALSE, value |-> None]

NoLimiter == [enabled |-> FALSE, hour |-> 0, day |-> 0]

\* the state of the later steps before any of them has run
NoLater ==
    /\ prevs = NoPrevs
    /\ bones = NoBones
    /\ mph = NoMph
    /\ pmb = NoPmb
    /\ limiter = NoLimiter

Terminal == {"Accepted", "Rejected"}

TypeOK ==
    /\ req \in Requests
    /\ pc \in {"Pending", "Validated", "Resolving", "Computed"}
               \cup {StepOrder[k] : k \in 1..Len(StepOrder)} \cup Terminal
    /\ calls \in 0..Len(CallOrder)
    /\ resp.success \in BOOLEAN

Init ==
    /\ req \in Requests
    /\ pc = "Pending"
    /\ inp = NoInput
    /\ age = NoAge
    /\ meas = NoMeasurements
    /\ calls = 0
    /\ resp = NoResponse
    /\ fn = None
    /\ NoLater

\* lines 43-75: the request is parsed; a missing key, an unparsable date
\* or number, or no measurement at all ends it
Parse ==
    /\ pc = "Pending"
    /\ IF ParseError(req) # None
       THEN /\ pc' = "Rejected"
            /\ resp' = Reject(The(ParseError(req)))
            /\ inp' = inp
       ELSE /\ pc' = "Validated"
            /\ inp' = Parsed(req)
            /\ resp' = resp
    /\ UNCHANGED <<req, age, meas, calls, fn, later>>

\* lines 77-89: chronological age, the decision to correct, corrected age
AgeOf(i) ==
    LET chron == calculate_age_in_years(The(i.birth_date), The(i.measurement_date))
        apply == should_apply_gestation_correction(
                     i.gestation_weeks, i.gestation_days, chron.decimal)
        corr == calculate_corrected_age(The(i.birth_date), The(i.measurement_date),
                                        i.gestation_weeks, i.gestation_days)
    IN [age_decimal |-> chron.decimal,
        calendar_age |-> chron.calendar,
        apply_correction |-> apply,
        corrected_age_decimal |-> IF apply THEN Some(corr.decimal) ELSE None,
        corrected_calendar_age |-> IF apply THEN Some(corr.calendar) ELSE None]

ComputeAge ==
    /\ pc = "Validated"
    /\ age' = Some(AgeOf(inp))
    /\ pc' = "Resolving"
    /\ UNCHANGED <<req, inp, meas, calls, resp, fn, later>>

\* lines 91-192: the next Measurement object is built and the collaborator
\* returns its centile and SDS
Resolve ==
    /\ pc = "Resolving"
    /\ LET plan == Plan(inp, The(age))
           c == plan[calls + 1]
       IN /\ \E o \in OutcomesOf(c) :
                /\ o = Nominal \/ ExtremeCount < MaxExtreme
                /\ meas' = [meas EXCEPT ![c] = Some(o)]
          /\ calls' = calls + 1
          /\ pc' = IF calls + 1 = Len(plan) THEN StepAfter(inp, 0) ELSE "Resolving"
    /\ UNCHANGED <<req, inp, age, resp, fn, later>>

\* lines 91-192 and 631-632: the collaborator raises, the handler's
\* except clause answers with the exception's text
ResolveRaises ==
    /\ pc = "Resolving"
    /\ ExtremeCount < MaxExtreme
    /\ LET c == Plan(inp, The(age))[calls + 1]
       IN resp' = Reject(Error("CollaboratorError", c, None))
    /\ calls' = calls + 1
    /\ pc' = "Rejected"
    /\ UNCHANGED <<req, inp, age, meas, fn, later>>

\* the Measurement objects built for the next previous measurement, in
\* program order: none when the date fails, and none after a measure whose
\* float() raises
PrevCalls(e) ==
    IF ~ValidYmd(e.date) THEN <<>>
    ELSE IF FloatRaises(e.height) THEN <<>>
    ELSE (IF RawTruthy(e.height) THEN <<"height">> ELSE <<>>) \o
         (IF FloatRaises(e.weight) THEN <<>>
          ELSE (IF RawTruthy(e.weight) THEN <<"weight">> ELSE <<>>) \o
               (IF RawTruthy(e.ofc) /\ ~FloatRaises(e.ofc)
                THEN <<"ofc">> ELSE <<>>))

\* lines 201-281: the next previous measurement is processed and appended,
\* or skipped when it is malformed
Previous ==
    /\ pc = "Previous"
    /\ LET k == prevs.done + 1
           e == inp.previous_measurements[k]
       IN /\ IF PrevMalformed(e)
             THEN prevs' = [prevs EXCEPT !.done = k]
             ELSE \E os \in [PrevMethods -> PreviousOutcomes] :
                      /\ \A m \in PrevMethods : ~RawTruthy(e[m]) => os[m] = Nominal
                      /\ prevs' = [prevs EXCEPT
                                      !.done = k,
                                      !.out = Append(@, ProcessedPrevious(inp, e, os)),
                                      !.kept = Append(@, k)]
          /\ pc' = IF k = Len(inp.previous_measurements)
                   THEN StepAfter(inp, 1) ELSE "Previous"
    /\ UNCHANGED <<req, inp, age, meas, calls, resp, fn, bones, mph, pmb, limiter>>

\* lines 222-281: the collaborator raises ValueError or KeyError for a
\* previous measurement, the except clause skips the entry
PreviousSkipped ==
    /\ pc = "Previous"
    /\ LET k == prevs.done + 1
       IN /\ PrevCalls(inp.previous_measurements[k]) # <<>>
          /\ prevs' = [prevs EXCEPT !.done = k, !.raised = @ \cup {k}]
          /\ pc' = IF k = Len(inp.previous_measurements)
                   THEN StepAfter(inp, 1) ELSE "Previous"
    /\ UNCHANGED <<req, inp, age, meas, calls, resp, fn, bones, mph, pmb, limiter>>

\* lines 222-281 and 631-632: the collaborator raises another exception
\* for a previous measurement, which ends the request
PreviousRaises ==
    /\ pc = "Previous"
    /\ PrevCalls(inp.previous_measurements[prevs.done + 1]) # <<>>
    /\ resp' = Reject(Error("CollaboratorError", "previous_measurements", None))
    /\ pc' = "Rejected"
    /\ UNCHANGED <<req, inp, age, meas, calls, fn, later>>

\* lines 347-395: the next bone age assessment: skipped when it is
\* malformed or outside the window, appended with the collaborator's
\* result when inside; a null bone age ends the request (631-632)
BoneAge ==
    /\ pc = "BoneAge"
    /\ LET k == bones.done + 1
           a == inp.bone_age_assessments[k]
           after == IF k = Len(inp.bone_age_assessments)
                    THEN StepAfter(inp, 2) ELSE "BoneAge"
       IN IF BoneAgeTypeError(a)
          THEN /\ pc' = "Rejected"
               /\ resp' = Reject(Error("TypeError", "bone_age", None))
               /\ bones' = [bones EXCEPT !.done = k]
          ELSE /\ pc' = after
               /\ resp' = resp
               /\ IF ~BoneCalled(inp, a)
                  THEN bones' = [bones EXCEPT !.done = k]
                  ELSE \E o \in BoneOutcomes :
                           bones' = [bones EXCEPT
                                        !.done = k,
                                        !.out = Append(@, AssessmentData(inp, a, o)),
                                        !.kept = Append(@, k),
                                        !.plot = ForPlotting(@, AssessmentData(inp, a, o))]
    /\ UNCHANGED <<req, inp, age, meas, calls, fn, prevs, mph, pmb, limiter>>

\* lines 365-395: the collaborator raises ValueError or KeyError for an
\* assessment in the window, the except clause skips the assessment
BoneAgeSkipped ==
    /\ pc = "BoneAge"
    /\ LET k == bones.done + 1
       IN /\ BoneCalled(inp, inp.bone_age_assessments[k])
          /\ bones' = [bones EXCEPT !.done = k, !.raised = @ \cup {k}]
          /\ pc' = IF k = Len(inp.bone_age_assessments)
                   THEN StepAfter(inp, 2) ELSE "BoneAge"
    /\ UNCHANGED <<req, inp, age, meas, calls, resp, fn, prevs, mph, pmb, limiter>>

\* lines 365-395 and 631-632: the collaborator raises another exception
\* for an assessment in the window, which ends the request
BoneAgeRaises ==
    /\ pc = "BoneAge"
    /\ BoneCalled(inp, inp.bone_age_assessments[bones.done + 1])
    /\ resp' = Reject(Error("CollaboratorError", "bone_age_assessments", None))
    /\ pc' = "Rejected"
    /\ UNCHANGED <<req, inp, age, meas, calls, fn, later>>

\* lines 416-462: the collaborator's mid-parental height and target range
MidParental ==
    /\ pc = "Mph"
    /\ \E o \in MphOutcomes : mph' = [raw |-> Some(o), data |-> Some(MphData(o))]
    /\ pc' = StepAfter(inp, 3)
    /\ UNCHANGED <<req, inp, age, meas, calls, resp, fn, prevs, bones, pmb, limiter>>

\* lines 416-462 and 631-632: one of the collaborator's calls raises,
\* which ends the request
MidParentalRaises ==
    /\ pc = "Mph"
    /\ resp' = Reject(Error("CollaboratorError", "mid_parental_height", None))
    /\ pc' = "Rejected"
    /\ UNCHANGED <<req, inp, age, meas, calls, fn, later>>

\* lines 475-485: the percentage of the median BMI
PercentageMedian ==
    /\ pc = "Pmb"
    /\ \E o \in PmbOutcomes :
           LET r == calculate_percentage_median_bmi(o)
           IN IF r.raises
              THEN /\ pc' = "Rejected"
                   /\ resp' = Reject(Error("CollaboratorError", "percentage_median", None))
                   /\ pmb' = [called |-> TRUE, raised |-> o.raises, value |-> None]
              ELSE /\ pc' = StepAfter(inp, 4)
                   /\ resp' = resp
                   /\ pmb' = [called |-> TRUE, raised |-> o.raises, value |-> r.value]
    /\ UNCHANGED <<req, inp, age, meas, calls, fn, prevs, bones, mph, limiter>>

\* lines 487-629: the SDS gate, then the results object
Aggregate ==
    /\ pc = "Computed"
    /\ LET bad == GateViolation(meas)
       IN IF bad # None
          THEN /\ pc' = "Rejected"
               /\ resp' = Reject(Error("SDSOutOfRange", The(bad),
                                       Some(Round2(The(GateSds(meas, The(bad)))))))
          ELSE /\ pc' = "Accepted"
               /\ \E ties \in [1..3 -> BOOLEAN] :
                      resp' = Accept(ResultsObject(inp, The(age), meas,
                                                   prevs, bones, mph.data, pmb,
                                                   ties))
    /\ UNCHANGED <<req, inp, age, meas, calls, fn, later>>

Next ==
    \/ Parse \/ ComputeAge \/ Resolve \/ ResolveRaises
    \/ Previous \/ PreviousSkipped \/ PreviousRaises
    \/ BoneAge \/ BoneAgeSkipped \/ BoneAgeRaises
    \/ MidParental \/ MidParentalRaises
    \/ PercentageMedian
    \/ Aggregate

Spec == Init /\ [][Next]_vars

\* a request is one synchronous call chain: every step that can be taken
\* is taken
FairSpec == Spec /\ WF_vars(Next)

----------------------------------------------------------------------------
(* should_apply_gestation_correction on its own                            *)

MIN_GESTATION_WEEKS == 22

MAX_GESTATION_WEEKS == 44

MAX_GESTATION_DAYS == 6

\* gestations from 0 weeks to beyond the validator's range, with and
\* without days
GestationWeeksInputs ==
    {None, Some(0)} \cup {Some(w) : w \in (MIN_GESTATION_WEEKS - 1)..(MAX_GESTATION_WEEKS + 1)}

GestationDaysInputs == {None} \cup {Some(d) : d \in 0..(MAX_GESTATION_DAYS + 1)}

\* ages (numerators over AgeDen) on and one day around 1.0 and 2.0 years
AgeInputs ==
    {-48, 0, AgeDen \div 2, AgeDen - 48, AgeDen, AgeDen + 48,
     2 * AgeDen - 48, 2 * AgeDen, 2 * AgeDen + 48, 5 * AgeDen}

InitGestation ==
    /\ \E w \in GestationWeeksInputs, d \in GestationDaysInputs, a \in AgeInputs :
           fn = [weeks |-> w, days |-> d, age |-> a, result |-> None]
    /\ req = Request(NominalBirth, NominalMeasurement, "male",
                     NominalWeight, Absent, Absent, NoGestation)
    /\ pc = "Idle"
    /\ inp = NoInput
    /\ age = NoAge
    /\ meas = NoMeasurements
    /\ calls = 0
    /\ resp = NoResponse
    /\ NoLater

\* one call of should_apply_gestation_correction
CallGestation ==
    /\ fn.result = None
    /\ fn' = [fn EXCEPT !.result =
                  Some(should_apply_gestation_correction(fn.weeks, fn.days, fn.age))]
    /\ UNCHANGED <<req, pc, inp, age, meas, calls, resp, later>>

SpecGestation == InitGestation /\ [][CallGestation]_vars

----------------------------------------------------------------------------
(* calculate_height_velocity on its own                                    *)

\* the current date of the calls
VelocityToday == Date(2025, 1, 1)

\* heights in hundredths of a cm: none, zero, and three heights
VelocityHeights == {None, Some(0), Some(10500), Some(11000), Some(11030)}

\* previous dates after, on and before the current date; 121, 122 and 123
\* days before it; one and four years before it
VelocityIntervals == {-366, -1, 0, 1, 61, 121, 122, 123, 366, 1461}

PreviousDates == {None} \cup {Some(AddDays(VelocityToday, -n)) : n \in VelocityIntervals}

InitVelocity ==
    /\ \E c \in VelocityHeights, p \in VelocityHeights,
          cd \in {None, Some(VelocityToday)}, pd \in PreviousDates :
           fn = [current_height |-> c, previous_height |-> p,
                 current_date |-> cd, previous_date |-> pd,
                 called |-> FALSE, result |-> None, swapped |-> None]
    /\ req = Request(NominalBirth, NominalMeasurement, "male",
                     NominalWeight, Absent, Absent, NoGestation)
    /\ pc = "Idle"
    /\ inp = NoInput
    /\ age = NoAge
    /\ meas = NoMeasurements
    /\ calls = 0
    /\ resp = NoResponse
    /\ NoLater

\* one call of calculate_height_velocity, and the call with the two
\* heights exchanged
CallVelocity ==
    /\ ~fn.called
    /\ fn' = [fn EXCEPT
                 !.called = TRUE,
                 !.result = calculate_height_velocity(
                     fn.current_height, fn.previous_height,
                     fn.current_date, fn.previous_date),
                 !.swapped = calculate_height_velocity(
                     fn.previous_height, fn.current_height,
                     fn.current_date, fn.previous_date)]
    /\ UNCHANGED <<req, pc, inp, age, meas, calls, resp, later>>

SpecVelocity == InitVelocity /\ [][CallVelocity]_vars

----------------------------------------------------------------------------
(* calculate_gh_dose on its own                                            *)

\* the largest body surface area of the calls, in hundredths of a m2
MaxBsa == 250

BsaInputs == {None, Some(0)} \cup {Some(b) : b \in 1..MaxBsa}

\* weights in hundredths of a kg: none, zero, 10 kg and 33.33 kg
DoseWeights == {None, Some(0), Some(1000), Some(3333)}

InitGhDose ==
    /\ \E b \in BsaInputs, w \in DoseWeights, t \in [1..3 -> BOOLEAN] :
           fn = [bsa |-> b, weight_kg |-> w, ties |-> t,
                 called |-> FALSE, result |-> None]
    /\ req = Request(NominalBirth, NominalMeasurement, "male",
                     NominalWeight, Absent, Absent, NoGestation)
    /\ pc = "Idle"
    /\ inp = NoInput
    /\ age = NoAge
    /\ meas = NoMeasurements
    /\ calls = 0
    /\ resp = NoResponse
    /\ NoLater

\* one call of calculate_gh_dose
CallGhDose ==
    /\ ~fn.called
    /\ fn' = [fn EXCEPT
                 !.called = TRUE,
                 !.result = calculate_gh_dose(fn.bsa, fn.weight_kg, fn.ties)]
    /\ UNCHANGED <<req, pc, inp, age, meas, calls, resp, later>>

SpecGhDose == InitGhDose /\ [][CallGhDose]_vars

-----------------------------------------------------------------------------
(* A session of calculate requests from one client address (app.py 18-41)   *)

\* app.py 26: default_limits=["200 per day", "50 per hour"]; /calculate
\* (line 40) carries no limit of its own, so the defaults apply to it
PER_HOUR == 50

PER_DAY == 200

\* 429 Too Many Requests, answered by the limiter before the view runs
TooManyRequests ==
    [success |-> FALSE, status |-> 429,
     error |-> Some(Error("RateLimitExceeded", "request", None)),
     results |-> None]

\* the limiter refuses once a window's count has reached its limit
LimitReachedLate(count, limit) == count > limit

LimitReached(count, limit) == count >= limit

\* lines 18-34: limiter is None and nothing is counted when Flask-Limiter
\* cannot be imported
Limited(l) ==
    /\ l.enabled
    /\ LimitReached(l.hour, PER_HOUR) \/ LimitReached(l.day, PER_DAY)

\* the requests of a session: a weight alone, a weight that is not a number,
\* no measurement at all
SessionRequests ==
    { Request(NominalBirth, NominalMeasurement, "male", w, Absent, Absent,
              NoGestation) : w \in {NominalWeight, Text, Absent} }

\* the collaborator is a function of its arguments; within a session it gives
\* the nominal outcome to every call that is made
SessionMeasurements(i, a) ==
    [c \in CallNames |-> IF Needed(i, a, c) THEN Some(Nominal) ELSE None]

\* calculate() from line 40 to line 632 on a request without previous
\* measurements, bone ages or parental heights: every name it reads is a
\* local of the call
Respond(r) ==
    IF ParseError(r) # None
    THEN Reject(The(ParseError(r)))
    ELSE The({ IF GateViolation(ms) # None
               THEN Reject(Error("SDSOutOfRange", The(GateViolation(ms)),
                                 Some(Round2(The(GateSds(ms, The(GateViolation(ms))))))))
               ELSE Accept(ResultsObject(i, a, ms, NoPrevs, NoBones, None,
                                         NoPmb, [k \in 1..3 |-> TRUE]))
               : i \in {Parsed(r)}, a \in {AgeOf(Parsed(r))},
                 ms \in {SessionMeasurements(Parsed(r), AgeOf(Parsed(r)))} })

SessionResponses == [r \in SessionRequests |-> Respond(r)]

\* a count stays at its limit until its window expires
Counted(count, limit) == IF count < limit THEN count + 1 ELSE limit

\* before app.py is imported, with or without Flask-Limiter installed
InitSession ==
    /\ limiter = NoLimiter
    /\ \E i \in BOOLEAN : fn = [installed |-> i, served |-> FALSE, exhausted |-> FALSE]
    /\ req = Request(NominalBirth, NominalMeasurement, "male",
                     NominalWeight, Absent, Absent, NoGestation)
    /\ pc = "Importing"
    /\ inp = NoInput
    /\ age = NoAge
    /\ meas = NoMeasurements
    /\ calls = 0
    /\ resp = NoResponse
    /\ prevs = NoPrevs
    /\ bones = NoBones
    /\ mph = NoMph
    /\ pmb = NoPmb

\* the import of app.py: lines 18-34 create the limiter, or set it to None
\* when Flask-Limiter is missing; line 878 then evaluates limiter.limit(...)
\* as a decorator, an AttributeError on None that ends the import
ImportApp ==
    /\ pc = "Importing"
    /\ IF fn.installed
       THEN /\ limiter' = [enabled |-> TRUE, hour |-> 0, day |-> 0]
            /\ pc' = "Idle"
       ELSE /\ limiter' = [enabled |-> FALSE, hour |-> 0, day |-> 0]
            /\ pc' = "Crashed"
    /\ UNCHANGED <<req, inp, age, meas, calls, resp, fn, prevs, bones, mph, pmb>>

\* one request of the session, from the limiter's check to the response
Serve ==
    \E r \in SessionRequests :
        /\ pc \notin {"Importing", "Crashed"}
        /\ req' = r
        /\ fn' = [fn EXCEPT
                     !.served = TRUE,
                     !.exhausted = limiter.hour >= PER_HOUR \/ limiter.day >= PER_DAY]
        /\ IF Limited(limiter)
           THEN /\ resp' = TooManyRequests
                /\ pc' = "Limited"
                /\ \E h \in {limiter.hour, Counted(limiter.hour, PER_HOUR)},
                      d \in {limiter.day, Counted(limiter.day, PER_DAY)} :
                       limiter' = [limiter EXCEPT !.hour = h, !.day = d]
           ELSE /\ resp' = SessionResponses[r]
                /\ pc' = IF SessionResponses[r].success THEN "Accepted" ELSE "Rejected"
                /\ limiter' = IF limiter.enabled
                              THEN [limiter EXCEPT
                                       !.hour = Counted(limiter.hour, PER_HOUR),
                                       !.day = Counted(limiter.day, PER_DAY)]
                              ELSE limiter
        /\ UNCHANGED <<inp, age, meas, calls, prevs, bones, mph, pmb>>

\* the hourly window of the client's counter expires
HourExpires ==
    /\ limiter.enabled
    /\ limiter.hour > 0
    /\ limiter' = [limiter EXCEPT !.hour = 0]
    /\ UNCHANGED <<req, pc, inp, age, meas, calls, resp, fn, prevs, bones, mph, pmb>>

\* the daily window of the client's counter expires
DayExpires ==
    /\ limiter.enabled
    /\ limiter.day > 0
    /\ limiter' = [limiter EXCEPT !.day = 0]
    /\ UNCHANGED <<req, pc, inp, age, meas, calls, resp, fn, prevs, bones, mph, pmb>>

NextSession == ImportApp \/ Serve \/ HourExpires \/ DayExpires

SpecSession == InitSession /\ [][NextSession]_vars

-----------------------------------------------------------------------------
(* validation.py: validate_date                                             *)

\* ErrorCodes.INVALID_DATE_FORMAT and ErrorCodes.INVALID_DATE_RANGE
INVALID_DATE_FORMAT == "ERR_001"

INVALID_DATE_RANGE == "ERR_002"

\* validation.py 58: date.today().year - 150
PAST_YEARS == 150

\* raise ValidationError(message, code)
ValidationError(code) == [ok |-> FALSE, value |-> None, code |-> code]

\* return of a validator
Validated(v) == [ok |-> TRUE, value |-> Some(v), code |-> ""]

\* the empty string, and a string that is not of the form YYYY-MM-DD
EmptyDate == [k |-> "empty", y |-> 0, m |-> 0, d |-> 0]

SlashDate == [k |-> "text", y |-> 0, m |-> 0, d |-> 0]

\* date_a > date_b
DateAfter(a, b) == toordinal(a) > toordinal(b)

\* validate_date(date_string, field_name), with the value of date.today()
validate_date(date_string, today) ==
    IF date_string.k \in {"missing", "empty"}
    THEN ValidationError(INVALID_DATE_FORMAT)
    ELSE IF ~ValidYmd(date_string)
    THEN ValidationError(INVALID_DATE_FORMAT)
    ELSE IF DateAfter(strptime(date_string), today)
    THEN ValidationError(INVALID_DATE_RANGE)
    ELSE IF strptime(date_string).y < today.y - PAST_YEARS
    THEN ValidationError(INVALID_DATE_RANGE)
    ELSE Validated(strptime(date_string))

\* days on which the function is called
Todays == {Date(2025, 1, 1), Date(2025, 6, 15), Date(2024, 2, 29), Date(2025, 12, 31)}

\* date strings around today and around 150 years before it, some of them
\* no calendar dates
DateStrings ==
    {MissingDate, EmptyDate, SlashDate} \cup
    { Ymd(y, m, d) : y \in {1800, 1873, 1874, 1875, 1876, 2024, 2025, 2026},
                     m \in {1, 2, 6, 12, 13},
                     d \in {1, 14, 15, 16, 28, 29, 31} }

InitDate ==
    /\ \E s \in DateStrings, t \in Todays :
           fn = [date_string |-> s, today |-> t, called |-> FALSE, result |-> None]
    /\ req = Request(NominalBirth, NominalMeasurement, "male",
                     NominalWeight, Absent, Absent, NoGestation)
    /\ pc = "Idle"
    /\ inp = NoInput
    /\ age = NoAge
    /\ meas = NoMeasurements
    /\ calls = 0
    /\ resp = NoResponse
    /\ NoLater

\* one call of validate_date
CallDate ==
    /\ ~fn.called
    /\ fn' = [fn EXCEPT !.called = TRUE,
                        !.result = Some(validate_date(fn.date_string, fn.today))]
    /\ UNCHANGED <<req, pc, inp, age, meas, calls, resp, later>>

SpecDate == InitDate /\ [][CallDate]_vars

-----------------------------------------------------------------------------
(* validation.py: validate_weight, validate_height, validate_ofc            *)

\* constants.py 28-37, in hundredths of a kg and of a cm
MIN_WEIGHT_KG == 10

MAX_WEIGHT_KG == 30000

MIN_HEIGHT_CM == 1000

MAX_HEIGHT_CM == 25000

MIN_OFC_CM == 1000

MAX_OFC_CM == 10000

\* ErrorCodes.INVALID_WEIGHT, INVALID_HEIGHT and INVALID_OFC
INVALID_WEIGHT == "ERR_004"

INVALID_HEIGHT == "ERR_005"

INVALID_OFC == "ERR_006"

\* float(value) raises ValueError or TypeError: a string that is no number
\* (the empty string is one), an array, an object
FloatFails(raw) == raw.k \in {"text", "array", "object"}

\* the body shared by the three validators: None for None, the error code
\* when float() raises or the number is outside [min, max], else the number
ValidateNumber(raw, min, max, code) ==
    IF raw.k = "absent" THEN [ok |-> TRUE, value |-> None, code |-> ""]
    ELSE IF FloatFails(raw) THEN ValidationError(code)
    ELSE IF raw.v < min \/ raw.v > max THEN ValidationError(code)
    ELSE Validated(raw.v)

validate_weight(weight) ==
    ValidateNumber(weight, MIN_WEIGHT_KG, MAX_WEIGHT_KG, INVALID_WEIGHT)

validate_height(height) ==
    ValidateNumber(height, MIN_HEIGHT_CM, MAX_HEIGHT_CM, INVALID_HEIGHT)

validate_ofc(ofc) ==
    ValidateNumber(ofc, MIN_OFC_CM, MAX_OFC_CM, INVALID_OFC)

\* values given to the validators: None, booleans, arrays, objects, a text,
\* numbers at and beside the limits
RawValues ==
    {Absent, Bool(TRUE), Bool(FALSE), Array(0), Array(2), Object(0), Object(2),
     Text, Num(0), Num(-500), Str(9), Str(10), NominalWeight, Str(999),
     Str(1000), Str(10000), Str(10001), Str(25000), Str(25001), Str(30000),
     Str(30001)}

InitMeasure ==
    /\ \E m \in {"weight", "height", "ofc"}, v \in RawValues :
           fn = [method |-> m, raw |-> v, called |-> FALSE, result |-> None]
    /\ req = Request(NominalBirth, NominalMeasurement, "male",
                     NominalWeight, Absent, Absent, NoGestation)
    /\ pc = "Idle"
    /\ inp = NoInput
    /\ age = NoAge
    /\ meas = NoMeasurements
    /\ calls = 0
    /\ resp = NoResponse
    /\ NoLater

\* one call of validate_weight, validate_height or validate_ofc
CallMeasure ==
    /\ ~fn.called
    /\ fn' = [fn EXCEPT
                 !.called = TRUE,
                 !.result = Some(IF fn.method = "weight" THEN validate_weight(fn.raw)
                                 ELSE IF fn.method = "height" THEN validate_height(fn.raw)
                                 ELSE validate_ofc(fn.raw))]
    /\ UNCHANGED <<req, pc, inp, age, meas, calls, resp, later>>

SpecMeasure == InitMeasure /\ [][CallMeasure]_vars

-----------------------------------------------------------------------------
(* /chart-data (app.py 634-697, utils.py 121-160)                           *)

\* the chart references the collaborator knows (docstring of app.py 639)
SupportedReferences == {"uk-who", "turners-syndrome", "trisomy-21"}

\* app.py 672
valid_methods == {"height", "weight", "bmi", "ofc"}

\* a dataset of create_chart: curves for one sex and one measurement method
Dataset(sex, method, curves) == [sex |-> sex, method |-> method, curves |-> curves]

\* a centile curve: the centile in tenths and the number of its points
Curve(centile, points) == [centile |-> centile, data |-> points]

\* create_chart raises, or returns a list of datasets
ChartRaises == [raised |-> TRUE, datasets |-> <<>>]

Chart(datasets) == [raised |-> FALSE, datasets |-> datasets]

\* what create_chart can answer: curves of the requested sex and method for
\* a reference it knows, an exception or nothing for one it does not know
ChartOutcomes(reference, method, sex) ==
    IF reference \in SupportedReferences /\ sex \in {"male", "female"}
    THEN {ChartRaises,
          Chart(<<Dataset(sex, method, <<Curve(4, 2), Curve(500, 2)>>)>>),
          Chart(<<Dataset(sex, method, <<Curve(4, 2)>>),
                  Dataset(sex, method, <<Curve(996, 3)>>)>>)}
    ELSE {ChartRaises, Chart(<<>>),
          Chart(<<Dataset("male", "none", <<Curve(4, 2)>>)>>)}

RECURSIVE Flatten(_)

\* the concatenation of a sequence of sequences
Flatten(ss) == IF ss = <<>> THEN <<>> ELSE Head(ss) \o Flatten(Tail(ss))

\* utils.get_chart_data: the curves of the datasets that have the sex and
\* the method, and the empty list when create_chart raises
fetch_chart_data(o, measurement_method, sex) ==
    IF o.raised THEN <<>>
    ELSE Flatten([i \in 1..Len(o.datasets) |->
                     IF o.datasets[i].sex = sex
                        /\ o.datasets[i].method = measurement_method
                     THEN o.datasets[i].curves
                     ELSE <<>>])

\* the fields of a /chart-data request; "" is a missing key
ChartRequests ==
    [reference : SupportedReferences \cup {"", "invalid-reference"},
     measurement_method : valid_methods \cup {"", "invalid"},
     sex : {"male", "female", "", "other"}]

\* data.get('reference', 'uk-who')
ReferenceOf(r) == IF r.reference = "" THEN "uk-who" ELSE r.reference

InitChart ==
    /\ fn \in ChartRequests
    /\ req = Request(NominalBirth, NominalMeasurement, "male",
                     NominalWeight, Absent, Absent, NoGestation)
    /\ pc = "Pending"
    /\ inp = NoInput
    /\ age = NoAge
    /\ meas = NoMeasurements
    /\ calls = 0
    /\ resp = NoResponse
    /\ NoLater

\* get_chart_data() of app.py from the request to its response
ChartData ==
    /\ pc = "Pending"
    /\ IF fn.measurement_method = "" \/ fn.sex = ""
       THEN /\ resp' = Reject(Error("MissingParameters", "measurement_method or sex", None))
            /\ pc' = "Rejected"
       ELSE IF fn.measurement_method \notin valid_methods
       THEN /\ resp' = Reject(Error("InvalidMethod", "measurement_method", None))
            /\ pc' = "Rejected"
       ELSE /\ \E o \in ChartOutcomes(ReferenceOf(fn), fn.measurement_method, fn.sex) :
                   resp' = Accept([centiles |->
                                      fetch_chart_data(o, fn.measurement_method, fn.sex)])
            /\ pc' = "Accepted"
    /\ UNCHANGED <<req, inp, age, meas, calls, fn, later>>

SpecChart == InitChart /\ [][ChartData]_vars

-----------------------------------------------------------------------------
(* calculations.py: calculate_cbnf_bsa as a function                        *)

\* the greatest weight given to the function, in hundredths of a kg
MaxCbnfWeight == 9100

\* a negative weight, zero, and every hundredth of a kg up to MaxCbnfWeight
CbnfWeights == {-500} \cup 0..MaxCbnfWeight

InitCbnf ==
    /\ \E w \in CbnfWeights : fn = [weight_kg |-> w, called |-> FALSE, result |-> None]
    /\ req = Request(NominalBirth, NominalMeasurement, "male",
                     NominalWeight, Absent, Absent, NoGestation)
    /\ pc = "Idle"
    /\ inp = NoInput
    /\ age = NoAge
    /\ meas = NoMeasurements
    /\ calls = 0
    /\ resp = NoResponse
    /\ NoLater

\* one call of calculate_cbnf_bsa
CallCbnf ==
    /\ ~fn.called
    /\ fn' = [fn EXCEPT !.called = TRUE,
                        !.result = calculate_cbnf_bsa(fn.weight_kg)]
    /\ UNCHANGED <<req, pc, inp, age, meas, calls, resp, later>>

SpecCbnf == InitCbnf /\ [][CallCbnf]_vars

----------------------------------------------------------------------------
(* Claims                                                                  *)

\* the results object of the response
Res == The(resp.results)

\* the error of the response
Err == The(resp.error)

RejectedBy(kind) == pc = "Rejected" /\ resp.error # None /\ Err.kind = kind

\* the SDS the collaborator resolved for a measurement of this request
Resolved(c) == meas[c] # None /\ The(meas[c]).sds # None

ResolvedSds(c) == The(The(meas[c]).sds)

\* hard limits of the claims, in thousandths
ClaimLimit(c) == IF c = "bmi" THEN 15000 ELSE 8000

\* a measurement field of the request holds a number other than zero (true
\* is read as the number 1.0)
Supplied(raw) == raw.k \in {"num", "str", "bool"} /\ raw.v # 0

\* the request holds nothing for the field, or a zero, false, an empty
\* array or an empty object, which the handler reads as nothing
NothingSupplied(raw) ==
    \/ raw.k = "absent"
    \/ raw.k \in {"num", "str", "bool", "array", "object"} /\ raw.v = 0

RequestProvides(method) ==
    IF method = "weight" THEN Supplied(req.weight)
    ELSE IF method = "height" THEN Supplied(req.height)
    ELSE IF method = "bmi" THEN Supplied(req.weight) /\ Supplied(req.height)
    ELSE Supplied(req.ofc)

\* C1: a chronological SDS beyond its hard limit (8, or 15 for the BMI)
\* ends the request Rejected: success=false, an error, no results object,
\* whatever the other measurements are; and the gate rejects for no SDS
\* that is not beyond its limit, so exactly 8 (15) does not reject.
C1_HardLimitRejects ==
    /\ (pc \in Terminal /\ \E c \in ChronologicalCalls :
            Resolved(c) /\ Abs(ResolvedSds(c)) > ClaimLimit(c))
          => /\ pc = "Rejected"
             /\ resp.success = FALSE
             /\ resp.error # None
             /\ resp.results = None
    /\ RejectedBy("SDSOutOfRange")
          => Resolved(Err.about) /\ Abs(ResolvedSds(Err.about)) > ClaimLimit(Err.about)

\* C1 witness: the weight SDS is beyond 8 while the height is unremarkable,
\* and the request was rejected at the gate
C1_Witness ==
    /\ RejectedBy("SDSOutOfRange")
    /\ Err.about = "weight"
    /\ meas["height"] = Some(Nominal)

\* the gate messages of the response that name a measurement
MessagesAbout(c) ==
    {k \in 1..Len(Res.validation_messages) : Res.validation_messages[k].measure = c}

\* C2: in an accepted request each of weight, height, BMI and OFC with
\* 4 < |SDS| <= hard limit has exactly one advisory message, which shows
\* the SDS, and one with |SDS| <= 4 (4.0 included) has none; an SDS within
\* the hard limit never makes the gate reject.
C2_AdvisoryMessages ==
    /\ pc = "Accepted" => \A c \in ChronologicalCalls :
          IF Resolved(c) /\ Abs(ResolvedSds(c)) > 4000 /\ Abs(ResolvedSds(c)) <= ClaimLimit(c)
          THEN /\ Cardinality(MessagesAbout(c)) = 1
               /\ \A k \in MessagesAbout(c) :
                     Res.validation_messages[k].sds = Round2(ResolvedSds(c))
          ELSE MessagesAbout(c) = {}
    /\ RejectedBy("SDSOutOfRange") => ~(Abs(ResolvedSds(Err.about)) <= ClaimLimit(Err.about))

\* C2 witness: accepted with two advisory messages, one of them for an SDS
\* of exactly 8
C2_Witness ==
    /\ pc = "Accepted"
    /\ Len(Res.validation_messages) = 2
    /\ \E c \in ChronologicalCalls : Resolved(c) /\ ResolvedSds(c) = 8000

\* the SDS a block of the results reports (in hundredths), if any
ReportedSds(block) == IF block = None THEN None ELSE The(block).sds

\* C3: in an accepted result every reported SDS (the weight, height, bmi
\* and ofc blocks and their _corrected blocks) is null or within its hard
\* limit: |SDS| <= 8, or <= 15 for the BMI.
C3_ReportedSdsWithinLimits ==
    pc = "Accepted" => \A c \in CallNames :
        \/ ReportedSds(Res[c]) = None
        \/ Abs(The(ReportedSds(Res[c]))) * 10 <= ClaimLimit(MethodOf(c))

\* the fields of an accepted and of a rejected response
AcceptedShape ==
    /\ resp.success = TRUE
    /\ resp.error = None
    /\ resp.results # None
    /\ \E n \in 0..Len(GateOrder) : DOMAIN Res.validation_messages = 1..n

RejectedShape ==
    /\ resp.success = FALSE
    /\ Cardinality(resp.error) = 1
    /\ resp.results = None

\* parsing, the ages and every collaborator call of the request are done
AllComputed ==
    /\ inp = Parsed(req)
    /\ age # None
    /\ calls = Len(Plan(inp, The(age)))
    /\ \A c \in CallNames : Needed(inp, The(age), c) <=> meas[c] # None

\* an answer, once given, stays
AnswerStays == pc \in Terminal => (pc' = pc /\ resp' = resp)

WeightOutOfRange(raw) == raw.k \in {"num", "str"} /\ (raw.v < 10 \/ raw.v > 30000)

\* C5: a request with a numeric weight outside [0.1, 300] kg is rejected
\* before the growth-reference collaborator is invoked for any measurement:
\* no collaborator call is made for it and it is never accepted.
C5_WeightRangeRejected ==
    WeightOutOfRange(req.weight) => (calls = 0 /\ pc # "Accepted")

\* C6: a request whose measurement date is not strictly after the birth
\* date is never accepted.
C6_DateOrderRejected ==
    pc = "Accepted"
        => toordinal(The(inp.measurement_date)) > toordinal(The(inp.birth_date))

RequiredFieldsParse ==
    ValidYmd(req.birth_date) /\ ValidYmd(req.measurement_date) /\ req.sex # "missing"

NoMeasurementSupplied ==
    NothingSupplied(req.weight) /\ NothingSupplied(req.height) /\ NothingSupplied(req.ofc)

\* C7: a request without weight, height and OFC never gets past parsing:
\* no age is computed, no collaborator is called, and (its dates and sex
\* being readable) it is Rejected with the at-least-one-measurement error;
\* no request that supplies one of the three is rejected with that error.
C7_AtLeastOneMeasurement ==
    /\ NoMeasurementSupplied
          => /\ pc \in {"Pending", "Rejected"}
             /\ age = None /\ calls = 0 /\ meas = NoMeasurements
             /\ (pc = "Rejected" /\ RequiredFieldsParse) => Err.kind = "MissingMeasurement"
    /\ RejectedBy("MissingMeasurement") => NoMeasurementSupplied

\* C7 witness: a request with readable dates and sex and no measurement
\* was rejected with the at-least-one-measurement error
C7_Witness ==
    /\ RejectedBy("MissingMeasurement")
    /\ req.weight = Absent /\ req.height = Absent /\ req.ofc = Absent

\* C8: should_apply_gestation_correction is true exactly when weeks is
\* provided (neither None nor 0) and either 32 <= weeks + days/7 < 37 and
\* age <= 1.0, or weeks + days/7 < 32 and age <= 2.0 (so never from 37
\* weeks on, and never without weeks).
C8_GestationCorrectionRule ==
    fn.result # None =>
        LET total7 == The(fn.weeks) * 7 + (IF fn.days = None THEN 0 ELSE The(fn.days))
        IN The(fn.result) =
             /\ fn.weeks # None /\ fn.weeks # Some(0)
             /\ \/ 32 * 7 <= total7 /\ total7 < 37 * 7 /\ fn.age <= 17532
                \/ total7 < 32 * 7 /\ fn.age <= 2 * 17532

\* C8 witness: 36 weeks 6 days at an age of exactly 1.0 is corrected
C8_Witness ==
    /\ fn.weeks = Some(36) /\ fn.days = Some(6) /\ fn.age = 17532
    /\ fn.result = Some(TRUE)

\* C9: in an accepted result gestation_correction_applied is true exactly
\* when corrected_age_years and corrected_age_calendar are both non-null.
C9_CorrectedAgeReported ==
    pc = "Accepted"
        => (Res.gestation_correction_applied
              <=> (Res.corrected_age_years # None /\ Res.corrected_age_calendar # None))

\* C10: in an accepted result the block of every provided measurement is
\* non-null, with or without correction, and a _corrected block is
\* non-null exactly when correction was applied and its measurement was
\* provided (both weight and height for the BMI).
C10_BlocksPresent ==
    pc = "Accepted" => \A m \in ChronologicalCalls :
        /\ RequestProvides(m) => Res[m] # None
        /\ LET c == CHOOSE x \in CallNames \ ChronologicalCalls : MethodOf(x) = m
           IN Res[c] # None <=> (Res.gestation_correction_applied /\ RequestProvides(m))

\* C10 witness: correction applied to a request with weight and OFC but no
\* height: weight_corrected and ofc_corrected are there, the height and
\* BMI blocks are not
C10_Witness ==
    /\ pc = "Accepted"
    /\ Res.gestation_correction_applied
    /\ Res.weight # None /\ Res.weight_corrected # None /\ Res.ofc_corrected # None
    /\ Res.height = None /\ Res.bmi_corrected = None

\* the interval of the call in days
VelocityDays == DaysBetween(The(fn.current_date), The(fn.previous_date))

\* the four inputs of the call are there, the heights not zero
VelocityInputsPresent ==
    /\ fn.current_height # None /\ The(fn.current_height) # 0
    /\ fn.previous_height # None /\ The(fn.previous_height) # 0
    /\ fn.current_date # None /\ fn.previous_date # None

\* C13: with its four inputs calculate_height_velocity returns value null
\* and the previous-must-be-before-current message for an interval <= 0,
\* value null and the at-least-4-months message for 0 < interval < 122,
\* and for an interval >= 122 message null and the value
\* (height difference / interval) x 365.25 rounded to 1 decimal; without
\* one of the inputs it returns null.
C13_VelocityOutcomes ==
    fn.called =>
        IF ~VelocityInputsPresent THEN fn.result = None
        ELSE /\ fn.result # None
             /\ LET r == The(fn.result)
                    diff == The(fn.current_height) - The(fn.previous_height)
                IN IF VelocityDays <= 0
                   THEN r.value = None /\ r.message = Some("PreviousNotBefore")
                   ELSE IF VelocityDays < 122
                   THEN r.value = None /\ r.message = Some("IntervalTooShort")
                   ELSE /\ r.message = None
                        /\ r.value # None
                        /\ 2 * Abs(The(r.value) * 40 * VelocityDays - diff * 1461)
                               <= 40 * VelocityDays

\* C13 witness: an interval of exactly 122 days gives a velocity
C13_Witness ==
    /\ fn.called /\ VelocityInputsPresent /\ VelocityDays = 122
    /\ The(fn.result).value = Some(150)

\* C16: for an interval of at least 122 days and non-zero heights the
\* velocity with the two heights exchanged is the negated velocity.
C16_VelocityOdd ==
    (fn.called /\ VelocityInputsPresent /\ VelocityDays >= 122)
        => The(The(fn.result).value) = -The(The(fn.swapped).value)

\* C16 witness: 5 cm in a year one way, -5 cm the other way
C16_Witness ==
    /\ fn.called /\ VelocityInputsPresent /\ VelocityDays = 366
    /\ The(fn.result).value = Some(50) /\ The(fn.swapped).value = Some(-50)

\* calculate_gh_dose was called with BSA > 0 and weight > 0 and returned a dose
DoseReturned ==
    /\ fn.called /\ fn.result # None
    /\ fn.bsa # None /\ The(fn.bsa) > 0
    /\ fn.weight_kg # None /\ The(fn.weight_kg) > 0

\* C12 as stated: for every BSA > 0 and weight > 0 for which
\* calculate_gh_dose returns a dose, mg_m2_week is within 0.15 of 7.0.
C12_WithinFifteenHundredths ==
    DoseReturned => 10 * Abs(The(fn.result).mg_m2_week - 70) <= 15

\* C12 amended: for every BSA > 0 and weight > 0 for which
\* calculate_gh_dose returns a dose, mg_m2_week is within
\* 0.35 / BSA + 0.05 of 7.0, the daily dose being within 0.05 mg of
\* BSA x 7 / 7.
C12_DriftBound ==
    DoseReturned =>
        /\ 2 * The(fn.bsa) * Abs(The(fn.result).mg_m2_week - 70)
               <= 700 + The(fn.bsa)
        /\ Abs(10 * The(fn.result).mg_per_day - The(fn.bsa)) <= 5

\* C12 witness: a BSA of 0.82 m2 gives 0.8 mg/day, that is 6.8 mg/m2/week
C12_Witness ==
    /\ DoseReturned /\ fn.bsa = Some(82)
    /\ The(fn.result).mg_per_day = 8 /\ The(fn.result).mg_m2_week = 68

\* the processed previous measurements that carry a height
HeightEntries == {k \in 1..Len(prevs.out) : prevs.out[k].height # None}

\* days from a processed previous measurement to the measurement date
EntryDays(k) == DaysBetween(The(inp.measurement_date), strptime(prevs.out[k].date))

\* the previous heights more than 122 days before the measurement date
Qualifying == {k \in HeightEntries : EntryDays(k) > 122}

OrderingError == Some(Velocity(None, Some("PreviousNotBefore"), None))

FourMonthsError == Some(Velocity(None, Some("AtLeastFourMonths"), None))

\* the reported velocity is the change from previous height k to the
\* current height per 365.25 days, to the nearest 0.1 cm
VelocityAgainst(k) ==
    /\ Res.previous_height = prevs.out[k].height
    /\ Res.height_velocity # None
    /\ The(Res.height_velocity).message = None
    /\ The(Res.height_velocity).value # None
    /\ 2 * Abs(The(The(Res.height_velocity).value) * 40 * EntryDays(k)
                 - (The(inp.height) - The(prevs.out[k].height).value) * 1461)
           <= 40 * EntryDays(k)

\* C14: in an accepted request with a current height and previous heights
\* all dated before the measurement date, the velocity is computed against
\* the latest previous height more than 122 days back and previous_height
\* is that entry's height block; when no previous height is that far back,
\* height_velocity is value null with the 4-months message and
\* previous_height is null.
C14_LatestQualifyingHeight ==
    (/\ pc = "Accepted" /\ Truthy(inp.height)
     /\ HeightEntries # {}
     /\ \A k \in HeightEntries : EntryDays(k) > 0)
        => IF Qualifying = {}
           THEN Res.height_velocity = FourMonthsError /\ Res.previous_height = None
           ELSE \E k \in Qualifying :
                    /\ \A j \in Qualifying : EntryDays(k) <= EntryDays(j)
                    /\ VelocityAgainst(k)

\* C14 witness: with previous heights 61 and 366 days back the velocity is
\* the one against the height 366 days back, 5.0 cm a year
C14_Witness ==
    /\ pc = "Accepted" /\ Len(prevs.out) = 2
    /\ EntryDays(1) = 61 /\ EntryDays(2) = 366
    /\ HeightEntries = {1, 2}
    /\ Res.previous_height = prevs.out[2].height
    /\ The(Res.height_velocity).value = Some(50)

\* a processed previous height is dated on or after the measurement date
HeightNotBefore == \E k \in HeightEntries : EntryDays(k) <= 0

\* C15 as stated: if any previous measurement that carries a height is
\* dated on or after the measurement date, height_velocity is value null
\* with the ordering error and previous_height is null.
C15_OrderingError ==
    (pc = "Accepted" /\ HeightNotBefore)
        => Res.height_velocity = OrderingError /\ Res.previous_height = None

\* C15 amended: in a request with a current height, a previous height
\* dated on or after the measurement date gives height_velocity value null
\* with the ordering error and previous_height null, whatever the other
\* previous heights are; the request is not rejected for it.
C15_OrderingErrorWithHeight ==
    /\ (pc = "Accepted" /\ Truthy(inp.height) /\ HeightNotBefore)
           => Res.height_velocity = OrderingError /\ Res.previous_height = None
    /\ (pc = "Rejected" /\ HeightNotBefore)
           => Err.kind \in {"SDSOutOfRange", "CollaboratorError"}

\* C15 witness: a previous height on the measurement date and another a
\* year back, and the ordering error is reported
C15_Witness ==
    /\ pc = "Accepted" /\ Truthy(inp.height)
    /\ HeightEntries = {1, 2}
    /\ EntryDays(1) = 366 /\ EntryDays(2) = 0
    /\ Res.height_velocity = OrderingError

\* C11: in every accepted result bsa_method is 'Boyd' exactly when weight
\* and height were both provided, 'cBNF' exactly when weight but not
\* height was provided, and null otherwise; and bsa is null exactly when
\* bsa_method is null.
C11_BsaMethod ==
    pc = "Accepted" =>
        /\ Res.bsa_method = Some("Boyd")
               <=> (RequestProvides("weight") /\ RequestProvides("height"))
        /\ Res.bsa_method = Some("cBNF")
               <=> (RequestProvides("weight") /\ ~RequestProvides("height"))
        /\ Res.bsa_method \in {None, Some("Boyd"), Some("cBNF")}
        /\ Res.bsa = None <=> Res.bsa_method = None

\* a supplied assessment has a date and a numeric bone age
WellFormed(a) == ValidYmd(a.date) /\ a.bone_age.k \in {"num", "str"}

\* the supplied well-formed assessments at most 30.44 days from the
\* measurement date
InWindow ==
    {k \in 1..Len(req.bone_age_assessments) :
        /\ WellFormed(req.bone_age_assessments[k])
        /\ Abs(DaysBetween(strptime(req.measurement_date),
                           strptime(req.bone_age_assessments[k].date))) <= 30}

\* the n-th of them in input order
NthInWindow(n) == CHOOSE k \in InWindow : Cardinality({j \in InWindow : j < k}) = n - 1

\* a reported assessment is the supplied assessment k
Reports(data, k) ==
    /\ data.bone_age = req.bone_age_assessments[k].bone_age.v
    /\ data.assessment_date = req.bone_age_assessments[k].date
    /\ data.standard = req.bone_age_assessments[k].standard

\* C17: in an accepted request with a current height, for whose
\* assessments the collaborator returned, bone_age_assessments holds
\* exactly the supplied well-formed assessments at most 30.44 days from the
\* measurement date, in input order; bone_age_height is null when there is
\* none, else one of them: one of standard 'tw3' if there is one, else the
\* first.
C17_BoneAgeWindow ==
    (pc = "Accepted" /\ Supplied(req.height) /\ bones.raised = {})
        => /\ Len(Res.bone_age_assessments) = Cardinality(InWindow)
           /\ \A n \in 1..Len(Res.bone_age_assessments) :
                  Reports(Res.bone_age_assessments[n], NthInWindow(n))
           /\ InWindow = {} => Res.bone_age_height = None
           /\ InWindow # {} =>
                  \E n \in 1..Len(Res.bone_age_assessments) :
                      /\ Res.bone_age_height = Some(Res.bone_age_assessments[n])
                      /\ IF \E k \in InWindow :
                                req.bone_age_assessments[k].standard = "tw3"
                         THEN Res.bone_age_assessments[n].standard = "tw3"
                         ELSE n = 1

\* C17 witness: two assessments in the window are both reported, and the
\* TW3 one, the second, is the one to plot
C17_Witness ==
    /\ pc = "Accepted" /\ InWindow = {1, 2}
    /\ req.bone_age_assessments[1].standard = "gp"
    /\ req.bone_age_assessments[2].standard = "tw3"
    /\ Len(Res.bone_age_assessments) = 2
    /\ Res.bone_age_height = Some(Res.bone_age_assessments[2])

\* the mid-parental-height block of an accepted result
MphBlock == The(Res.mid_parental_height)

\* the collaborator's answer behind it
MphRaw == The(mph.raw)

\* the heights of the two ends of the target range before rounding
LowerHeight == measurement_from_sds(MphRaw.map, MphRaw.mph_z - MphRaw.offset)

UpperHeight == measurement_from_sds(MphRaw.map, MphRaw.mph_z + MphRaw.offset)

\* C18 as stated: for every pair of valid parental heights and either sex,
\* with a strictly increasing SDS-to-height map and the MPH SDS strictly
\* inside the limit SDS, target_range_lower < mid_parental_height <
\* target_range_upper.
C18_TargetRangeStrict ==
    (pc = "Accepted" /\ Res.mid_parental_height # None)
        => /\ MphBlock.target_range_lower < MphBlock.mid_parental_height
           /\ MphBlock.mid_parental_height < MphBlock.target_range_upper

\* C18 amended: if moreover the collaborator's mid-parental height is the
\* height of its SDS on that map, target_range_lower <=
\* mid_parental_height <= target_range_upper, and each inequality is
\* strict when the two heights are at least 0.1 cm apart before rounding.
C18_TargetRange ==
    (/\ pc = "Accepted" /\ Res.mid_parental_height # None
     /\ MphRaw.mph_cm = measurement_from_sds(MphRaw.map, MphRaw.mph_z))
        => /\ MphBlock.target_range_lower <= MphBlock.mid_parental_height
           /\ MphBlock.mid_parental_height <= MphBlock.target_range_upper
           /\ LowerHeight + 10 <= MphRaw.mph_cm
                  => MphBlock.target_range_lower < MphBlock.mid_parental_height
           /\ MphRaw.mph_cm + 10 <= UpperHeight
                  => MphBlock.mid_parental_height < MphBlock.target_range_upper

\* C18 witness: 177.0 cm at SDS 0, between 170.0 and 184.0 cm
C18_Witness ==
    /\ pc = "Accepted" /\ Res.mid_parental_height # None
    /\ Supplied(req.maternal_height) /\ Supplied(req.paternal_height)
    /\ req.sex = "female"
    /\ MphRaw.mph_cm = measurement_from_sds(MphRaw.map, MphRaw.mph_z)
    /\ MphBlock.target_range_lower = 1700
    /\ MphBlock.mid_parental_height = 1770
    /\ MphBlock.target_range_upper = 1840

\* the blocks of the result that do not hold the percentage of the median
OtherBlocks == DOMAIN Results(inp, The(age), meas) \ {"bmi"}

\* C20: when the collaborator fails on the percentage of the median BMI,
\* calculate_percentage_median_bmi returns null; the request is not
\* rejected for it, and when accepted it reports bmi.percentage_median
\* null, the BMI's value, centile and SDS and every other measurement
\* block as computed.
C20_PercentageMedianCaught ==
    pmb.raised =>
        /\ pmb.value = None
        /\ pc = "Rejected" => Err.about # "percentage_median"
        /\ pc = "Accepted" =>
               /\ Res.bmi # None
               /\ The(Res.bmi).percentage_median = None
               /\ \A f \in {"value", "centile", "sds"} :
                      The(Res.bmi)[f] = The(Results(inp, The(age), meas).bmi)[f]
               /\ \A f \in OtherBlocks : Res[f] = Results(inp, The(age), meas)[f]
               /\ Res.bsa = Bsa(inp).bsa /\ Res.bsa_method = Bsa(inp).bsa_method

\* C20 witness: the collaborator failed on the percentage of the median
\* and the request is accepted with the weight, height and BMI blocks
C20_Witness ==
    /\ pmb.raised /\ pc = "Accepted"
    /\ Res.weight # None /\ Res.height # None
    /\ The(Res.bmi).sds # None /\ The(Res.bmi).percentage_median = None

C21_FailureIsLocal ==
    ~(/\ RejectedBy("CollaboratorError")
      /\ Err.about \in CallNames \cup {"mid_parental_height"})

\* today - 150 years
EarliestDate(today) == AddMonths(today, 0 - PAST_YEARS * MONTHS_PER_YEAR)

\* the string is a calendar date between today - 150 years and today
DateInRange(s, today) ==
    /\ ValidYmd(s)
    /\ ~DateAfter(strptime(s), today)
    /\ ~DateAfter(EarliestDate(today), strptime(s))

\* C22: validate_date returns the parsed date exactly for a valid date d with
\* today - 150 years <= d <= today, fails with InvalidDateRange for a valid
\* date outside that range and with InvalidDateFormat for an empty or
\* unparsable string
C22_ValidateDate ==
    fn.called =>
        LET r == The(fn.result)
        IN /\ r.ok <=> DateInRange(fn.date_string, fn.today)
           /\ r.ok => r.value = Some(strptime(fn.date_string))
           /\ ValidYmd(fn.date_string) /\ ~DateInRange(fn.date_string, fn.today)
                  => ~r.ok /\ r.code = INVALID_DATE_RANGE
           /\ ~ValidYmd(fn.date_string) => ~r.ok /\ r.code = INVALID_DATE_FORMAT

\* a boolean, an array or an object
NotScalarNumeric(raw) == raw.k \in {"bool", "array", "object"}

\* the error kind of a measurement's validator
CodeOf(method) ==
    IF method = "weight" THEN INVALID_WEIGHT
    ELSE IF method = "height" THEN INVALID_HEIGHT
    ELSE INVALID_OFC

\* C23: a weight, height or head circumference given as a boolean, an array
\* or an object is never accepted as a number: its validator fails with the
\* measurement's own error kind
C23_ValidatorRejectsType ==
    fn.called /\ NotScalarNumeric(fn.raw) =>
        LET r == The(fn.result)
        IN ~r.ok /\ r.code = CodeOf(fn.method)

\* C23, the request: a calculate request carrying a boolean, an array or an
\* object as weight, height or head circumference ends Rejected
C23_RequestRejected ==
    /\ pc \in Terminal
    /\ \E m \in {"weight", "height", "ofc"} : NotScalarNumeric(req[m])
    => pc = "Rejected"

\* C24: a /chart-data request with an unsupported reference id is answered
\* with status 400 and success false, not with a successful empty list
C24_UnsupportedReference ==
    /\ pc \in Terminal
    /\ fn.reference \notin SupportedReferences \cup {""}
    => resp.status = 400 /\ ~resp.success

\* C25: without Flask-Limiter the application still starts, with rate
\* limiting disabled, /calculate keeps working and no request is answered 429
C25_StartsWithoutLimiter ==
    ~fn.installed /\ pc # "Importing" =>
        /\ pc # "Crashed"
        /\ ~limiter.enabled
        /\ resp.status # 429

\* the table breakpoints next below and next above a weight
BreakpointBelow(w) ==
    CHOOSE b \in TableWeights : b < w /\ \A v \in TableWeights : v < w => v <= b

BreakpointAbove(w) ==
    CHOOSE b \in TableWeights : b > w /\ \A v \in TableWeights : v > w => b <= v

\* the weight lies strictly between two adjacent breakpoints of the table
BetweenBreakpoints(w) ==
    /\ w \notin TableWeights
    /\ \E b \in TableWeights : b < w
    /\ \E b \in TableWeights : b > w

\* null for a weight <= 0 and the tabulated value at a breakpoint
CbnfAtBreakpoints ==
    /\ fn.weight_kg <= 0 => fn.result = None
    /\ fn.weight_kg \in TableWeights => fn.result = Some(TableBsa(fn.weight_kg))

\* C26 as stated: null for weight <= 0, the tabulated value at a
\* breakpoint, and strictly between the two tabulated values for every
\* weight strictly between two adjacent breakpoints
C26_CbnfStrictlyBetween ==
    fn.called =>
        /\ CbnfAtBreakpoints
        /\ BetweenBreakpoints(fn.weight_kg) =>
               /\ fn.result # None
               /\ TableBsa(BreakpointBelow(fn.weight_kg)) < The(fn.result)
               /\ The(fn.result) < TableBsa(BreakpointAbove(fn.weight_kg))

\* C26, amended: null for weight <= 0, the tabulated value at a breakpoint,
\* and between the two tabulated values, ends included, for every weight
\* strictly between two adjacent breakpoints; 10.5 kg lies strictly
\* between the values of 10 kg and 11 kg
C26_CbnfBetween ==
    fn.called =>
        /\ CbnfAtBreakpoints
        /\ BetweenBreakpoints(fn.weight_kg) =>
               /\ fn.result # None
               /\ TableBsa(BreakpointBelow(fn.weight_kg)) <= The(fn.result)
               /\ The(fn.result) <= TableBsa(BreakpointAbove(fn.weight_kg))
        /\ fn.weight_kg = 1050 =>
               TableBsa(1000) < The(fn.result) /\ The(fn.result) < TableBsa(1100)

\* 10.5 kg gives 0.51 m2, between 0.49 and 0.53
C26_Witness ==
    /\ fn.called
    /\ fn.weight_kg = 1050
    /\ fn.result = Some(51)

\* the chronological SDS of a measurement is beyond its hard limit
BeyondHard(method) ==
    /\ meas[method] # None
    /\ The(meas[method]).sds # None
    /\ Abs(The(The(meas[method]).sds)) > (IF method = "bmi" THEN 15000 ELSE 8000)

\* the first measurement beyond its hard limit in the order weight, height,
\* BMI, OFC
FirstBeyondHard ==
    IF BeyondHard("weight") THEN "weight"
    ELSE IF BeyondHard("height") THEN "height"
    ELSE IF BeyondHard("bmi") THEN "bmi"
    ELSE "ofc"

SeveralBeyondHard ==
    Cardinality({m \in {"weight", "height", "bmi", "ofc"} : BeyondHard(m)}) > 1

\* C27: when more than one measurement is beyond its hard SDS limit the
\* request is rejected with the error of the first of them in the order
\* weight, height, BMI, OFC: the error names it and its SDS, and nothing
\* is reported for the later ones
C27_FirstViolationRejects ==
    pc \in Terminal /\ SeveralBeyondHard =>
        /\ pc = "Rejected"
        /\ Err.kind \in {"SDSOutOfRange", "CollaboratorError"}
        /\ Err.kind = "SDSOutOfRange" =>
               /\ Err.about = FirstBeyondHard
               /\ Err.sds = Some(Round2(The(The(meas[FirstBeyondHard]).sds)))
               /\ resp.results = None

\* weight and height are both beyond 8 and the error is the weight's
C27_Witness ==
    /\ RejectedBy("SDSOutOfRange")
    /\ BeyondHard("weight")
    /\ BeyondHard("height")
    /\ Err.about = "weight"

FunctionVelocity ==
    calculate_height_velocity(inp.height, Some(The(prevs.out[1].height).value),
                              inp.measurement_date, Some(strptime(prevs.out[1].date)))

BadPrevious(e) ==
    \/ e.date.k = "missing"
    \/ ~ValidYmd(e.date)
    \/ \E m \in {"height", "weight", "ofc"} : e[m].k = "text"

BadAssessment(a) ==
    \/ a.date.k = "missing"
    \/ ~ValidYmd(a.date)
    \/ a.bone_age.k = "text"

\* the supplied previous measurements that are not such entries
GoodPrevious ==
    {k \in 1..Len(req.previous_measurements) : ~BadPrevious(req.previous_measurements[k])}

NthGoodPrevious(n) ==
    CHOOSE k \in GoodPrevious : Cardinality({j \in GoodPrevious : j < k}) = n - 1

\* a reported previous measurement is the supplied entry k
ReportsPrevious(pm, k) ==
    LET e == req.previous_measurements[k]
    IN /\ pm.date = e.date
       /\ \A m \in {"height", "weight", "ofc"} :
              IF e[m].k \in {"num", "str"} /\ e[m].v # 0
              THEN pm[m] # None /\ The(pm[m]).value = e[m].v
              ELSE pm[m] = None

\* C29: a previous measurement or bone age assessment without its date,
\* with an unparsable date or with a non-numeric string value is skipped:
\* it is not reported, the other entries are processed in order, and the
\* request is not rejected for it
C29_MalformedEntrySkipped ==
    /\ (/\ pc \in Terminal
        /\ \E k \in 1..Len(req.previous_measurements) :
               BadPrevious(req.previous_measurements[k]))
           => /\ pc = "Rejected" => Err.kind \in {"SDSOutOfRange", "CollaboratorError"}
              /\ pc = "Accepted" /\ prevs.raised = {} =>
                     /\ Len(Res.previous_measurements) = Cardinality(GoodPrevious)
                     /\ \A n \in 1..Len(Res.previous_measurements) :
                            ReportsPrevious(Res.previous_measurements[n],
                                            NthGoodPrevious(n))
    /\ (/\ pc \in Terminal
        /\ \E k \in 1..Len(req.bone_age_assessments) :
               BadAssessment(req.bone_age_assessments[k]))
           => /\ pc = "Rejected" =>
                     Err.kind \in {"SDSOutOfRange", "CollaboratorError", "TypeError"}
              /\ pc = "Rejected" /\ Err.kind = "TypeError" =>
                     \E k \in 1..Len(req.bone_age_assessments) :
                         req.bone_age_assessments[k].bone_age.k = "null"
              /\ pc = "Accepted" /\ bones.raised = {} =>
                     /\ \A n \in 1..Len(Res.bone_age_assessments) :
                            \E k \in 1..Len(req.bone_age_assessments) :
                                /\ ~BadAssessment(req.bone_age_assessments[k])
                                /\ Reports(Res.bone_age_assessments[n], k)
                     /\ Supplied(req.height) =>
                            \A k \in InWindow :
                                \E n \in 1..Len(Res.bone_age_assessments) :
                                    Reports(Res.bone_age_assessments[n], k)

\* a height that is no number in the first previous measurement: only the
\* second one is reported
C29_Witness ==
    /\ pc = "Accepted"
    /\ Len(req.previous_measurements) = 2
    /\ req.previous_measurements[1].height.k = "text"
    /\ ~BadPrevious(req.previous_measurements[2])
    /\ Len(Res.previous_measurements) = 1
    /\ ReportsPrevious(Res.previous_measurements[1], 2)

\* C30: for every provided measurement whose collaborator result has an SDS
\* and a centile, the accepted block reports both rounded to 2 decimals; an
\* SDS or a centile of exactly 0 is reported as 0, not as null
C30_ZeroIsReported ==
    pc = "Accepted" =>
        \A m \in {"weight", "height", "bmi", "ofc"} :
            (/\ Res[m] # None
             /\ meas[m] # None
             /\ The(meas[m]).sds # None
             /\ The(meas[m]).centile # None)
                => /\ The(Res[m]).sds = Some(Round2(The(The(meas[m]).sds)))
                   /\ The(Res[m]).centile = Some(Round2(The(The(meas[m]).centile)))

====
